---- MODULE Spec2Model ----
(***************************************************************************)
(* ol-load-geopackage: loading an OGC GeoPackage into OpenLayers sources.  *)
(*                                                                         *)
(* The module models the library's public operations initSqlJsWasm and     *)
(* loadGpkg, the promises they create, the private readRawGpkg,            *)
(* processGpkgData and parseGpkgGeom, and the environment they call into   *)
(* (sql.js, fetch, ol/proj, ol/format/WKB).                                 *)
(*                                                                         *)
(* Specifications:                                                         *)
(*   Spec         the orchestration of initSqlJsWasm / loadGpkg calls      *)
(*   SpecGeom     parseGpkgGeom applied to geometry cells                  *)
(*   SpecData     processGpkgData, statement by statement, on a file       *)
(*   SpecGeomPair parseGpkgGeom applied to two cells                       *)
(*   SpecOverlap  two loadGpkg calls under way at the same time            *)
(*   SpecLive     Spec with the fairness the runtime provides              *)
(*   SpecDist     the build in dist/: request first, Promise.all           *)
(***************************************************************************)
EXTENDS Integers, Sequences, FiniteSets, TLC

VARIABLES
    promiseSqlWasmLoaded,   \* module variable: 0 = undefined, g = g-th initSqlJs() promise
    sqlWasmPromises,        \* the promises returned by initSqlJs(), in creation order
    consoleErrors,          \* promises whose rejection the .catch of initSqlJsWasm logged
    loads,                  \* the loadGpkg calls that returned a promise, in call order
    thrown,                 \* the last loadGpkg call that threw synchronously
    gpkgBinGeom,            \* SpecGeom: the geometry cell handed to parseGpkgGeom
    geomResult,             \* SpecGeom: what parseGpkgGeom did with it
    pg,                     \* SpecData: the activation of processGpkgData
    geomOther               \* SpecGeomPair: a second cell and what parseGpkgGeom did with it

vars == <<promiseSqlWasmLoaded, sqlWasmPromises, consoleErrors, loads, thrown,
          gpkgBinGeom, geomResult, pg, geomOther>>

orchVars == <<promiseSqlWasmLoaded, sqlWasmPromises, consoleErrors, loads, thrown>>

geomVars == <<gpkgBinGeom, geomResult>>

dataVars == <<pg>>

pairVars == <<geomOther>>

----------------------------------------------------------------------------
(* Bounds *)

\* longest geometry cell (bytes) drawn in SpecGeom; 72 is the largest payload offset
MaxCellLen == 75

\* number of loadGpkg calls that return a promise
MaxLoads == 1

\* number of initSqlJsWasm calls
MaxInit == 2

----------------------------------------------------------------------------
(* Errors.  One record shape for every error value:                        *)
(*   cls    the JavaScript class of the object  (Error, TypeError)         *)
(*   kind   which throw statement built it (named after the error          *)
(*          taxonomy), or External for an object the environment built     *)
(*   status the HTTP status quoted in the message, 0 when none             *)
(*   about  the value spliced into the message (projection, reason, ...)   *)
(*   table  the table named in the message, "" when none                   *)

NoError == [cls |-> "none", kind |-> "none", status |-> 0, about |-> "", table |-> ""]

MkError(cls, kind, status, about, table) ==
    [cls |-> cls, kind |-> kind, status |-> status, about |-> about, table |-> table]

\* new Error('Invalid geometry envelope size flag in GeoPackage')
InvalidEnvelopeFlag == MkError("Error", "InvalidEnvelopeFlag", 0, "", "")

----------------------------------------------------------------------------
(* parseGpkgGeom *)

Byte == 0..255

\* x >> n for a non-negative 32-bit x
ShiftRight(x, n) == x \div (2 ^ n)

\* x & 7
And7(x) == x % 8

\* FlagsByte of a parser that rejects a cell without a flags byte: an absent
\* byte counts as envelope flag 5
FlagsByte_ShortIsInvalid(cell) == IF Len(cell) >= 4 THEN cell[4] ELSE 10

\* gpkgBinGeom[3]: a typed-array read past the end gives undefined, and
\* undefined >> 1 is 0, so an absent byte acts as 0 in the expression below
FlagsByte(cell) == IF Len(cell) >= 4 THEN cell[4] ELSE 0

\* EFlags without the shift: bits 0-2 of the flags byte
EFlags_NoShift(cell) == And7(FlagsByte(cell))

\* var eFlags = (flags >> 1) & 7
EFlags(cell) == And7(ShiftRight(FlagsByte(cell), 1))

\* EnvelopeSize with the fall-through of case 2 into case 3 lost
EnvelopeSize_NoFallThrough(eFlags) ==
    CASE eFlags = 0 -> 0
      [] eFlags = 1 -> 32
      [] eFlags = 2 -> 0
      [] eFlags = 3 -> 48
      [] eFlags = 4 -> 64
      [] OTHER -> -1

\* the switch: -1 stands for the default branch (throw)
EnvelopeSize(eFlags) ==
    CASE eFlags = 0 -> 0
      [] eFlags = 1 -> 32
      [] eFlags \in {2, 3} -> 48
      [] eFlags = 4 -> 64
      [] OTHER -> -1

\* Subarray that skips one byte too many
Subarray_OffByOne(cell, begin) ==
    LET b == IF begin + 1 > Len(cell) THEN Len(cell) ELSE begin + 1
    IN  [begin |-> b, bytes |-> SubSeq(cell, b + 1, Len(cell))]

\* TypedArray.prototype.subarray(begin): begin is clamped to the length, the
\* view runs from there to the end
Subarray(cell, begin) ==
    LET b == IF begin > Len(cell) THEN Len(cell) ELSE begin
    IN  [begin |-> b, bytes |-> SubSeq(cell, b + 1, Len(cell))]

\* what one call of parseGpkgGeom yields: either it throws, or it returns the
\* view cell.subarray(envelopeSize + 8)
parseGpkgGeom(cell) ==
    LET envelopeSize == EnvelopeSize(EFlags(cell))
        wkbOffset == envelopeSize + 8
    IN  IF envelopeSize < 0
        THEN [threw |-> TRUE, error |-> InvalidEnvelopeFlag, wkbOffset |-> 0,
              begin |-> 0, wkb |-> <<>>]
        ELSE [threw |-> FALSE, error |-> NoError, wkbOffset |-> wkbOffset,
              begin |-> Subarray(cell, wkbOffset).begin,
              wkb |-> Subarray(cell, wkbOffset).bytes]

----------------------------------------------------------------------------
(* The projection registry: ol/proj get() *)

\* the projections OpenLayers knows without proj4 definitions being added
RegisteredProjections == {"EPSG:3857", "EPSG:4326"}

\* ol_proj_get(code): truthy exactly for a registered projection
ol_proj_get(code) == code \in RegisteredProjections

----------------------------------------------------------------------------
(* Errors built by loadGpkg and readRawGpkg *)

\* new Error('SQL WASM loading has not started; did you forget ...')
WasmNotInitialized == MkError("Error", "WasmNotInitialized", 0, "", "")

\* new Error('Missing requested display projection [' + displayProjection + ...)
UnknownDisplayProjection(displayProjection) ==
    MkError("Error", "UnknownDisplayProjection", 0, displayProjection, "")

\* new Error('Unable to load SQLite JS binary (sql-wasm.wasm).\n' + results[0].reason)
WasmLoadFailed(reason) == MkError("Error", "WasmLoadFailed", 0, reason, "")

\* new Error('GPKG file could not be loaded from URL: ... Response: (status) ...')
SourceUnreachable(status) == MkError("Error", "SourceUnreachable", status, "", "")

\* new TypeError('Input must be URL string or URL/File/Blob object')
InvalidInputKind == MkError("TypeError", "InvalidInputKind", 0, "", "")

\* new Error('Requested GPKG file could not be loaded.\n' + error)
BodyReadFailed(cause) == MkError("Error", "BodyReadFailed", 0, cause, "")

\* the object a rejected fetch() carries: built by the browser, a TypeError
\* (no AbortSignal is passed, so no AbortError)
FetchRejection(reason) == MkError("TypeError", "External", 0, reason, "")

----------------------------------------------------------------------------
(* Inputs of the environment *)

\* gpkgFile argument shapes: URL string, URL object, Blob (File is a Blob),
\* and anything else (number, null, plain object)
GpkgInputs == {"string", "URL", "Blob", "other"}

\* displayProjection arguments: one registered, one not
DisplayProjections == {"EPSG:3857", "EPSG:27700"}

\* HTTP statuses a response can carry; response.ok is status in 200..299
HttpStatuses == {200, 404, 503}

ResponseOk(status) == status >= 200 /\ status <= 299

\* reasons the environment gives when a promise of its own rejects
WasmRejections == {"wasm: CompileError"}

FetchRejections == {"Failed to fetch"}

BodyRejections == {"body stream error"}

----------------------------------------------------------------------------
(* GeoPackage files.  The bytes of a file are modelled by what the SQLite   *)
(* engine finds in them:                                                    *)
(*   opens          new Database(bytes) and the catalog query succeed       *)
(*   engineError    what the engine throws when a statement fails           *)
(*   features       the rows of the catalog join, each with the rows of     *)
(*                  its table (readable: SELECT * FROM the table works)     *)
(*   stylesListed   gpkg_contents has a row named layer_styles              *)
(*   stylesReadable SELECT f_table_name,styleSLD FROM layer_styles works    *)
(*   styles         the rows of layer_styles                                *)

\* how the bytes other than the flags byte are filled
Fills == {1, 7}

\* a cell of len bytes whose byte at offset 3 is flags
Cell(flags, len, fill) ==
    [i \in 1..len |-> IF i = 4 THEN flags ELSE ((i - 1) * fill + 71) % 256]

Row(fid, name, cell) == [fid |-> fid, name |-> name, geom |-> cell]

NotADatabase ==
    [opens |-> FALSE, engineError |-> "file is not a database", features |-> <<>>,
     stylesListed |-> FALSE, stylesReadable |-> FALSE, styles |-> <<>>]

RoadsAndStyles ==
    [opens |-> TRUE, engineError |-> "",
     features |-> <<
        [table_name |-> "roads", srs_id |-> 4326, column_name |-> "geom",
         readable |-> TRUE,
         rows |-> << Row(1, "A1", Cell(1, 30, 1)), Row(2, "B2", Cell(3, 62, 7)) >>] >>,
     stylesListed |-> TRUE, stylesReadable |-> TRUE,
     styles |-> << <<"roads", "<sld/>">> >>]

BadEnvelopeRow ==
    [opens |-> TRUE, engineError |-> "",
     features |-> <<
        [table_name |-> "roads", srs_id |-> 4326, column_name |-> "geom",
         readable |-> TRUE,
         rows |-> << Row(1, "A1", Cell(0, 30, 1)) >>],
        [table_name |-> "paths", srs_id |-> 3857, column_name |-> "geom",
         readable |-> TRUE,
         rows |-> << Row(1, "P1", Cell(11, 30, 1)) >>] >>,
     stylesListed |-> FALSE, stylesReadable |-> FALSE, styles |-> <<>>]

\* the catalog tables are missing: the catalog query fails
NoCatalog ==
    [opens |-> FALSE, engineError |-> "no such table: gpkg_contents",
     features |-> <<>>,
     stylesListed |-> FALSE, stylesReadable |-> FALSE, styles |-> <<>>]

\* a table with two rows, then a table without rows whose projection is
\* not registered
UnknownProjectionNoRows ==
    [opens |-> TRUE, engineError |-> "",
     features |-> <<
        [table_name |-> "roads", srs_id |-> 4326, column_name |-> "geom",
         readable |-> TRUE,
         rows |-> << Row(1, "A1", Cell(0, 30, 1)), Row(2, "B2", Cell(9, 80, 7)) >>],
        [table_name |-> "buildings", srs_id |-> 27700, column_name |-> "shape",
         readable |-> TRUE, rows |-> <<>>] >>,
     stylesListed |-> FALSE, stylesReadable |-> FALSE, styles |-> <<>>]

\* a table whose projection is not registered, with a row
UnknownProjectionWithRows ==
    [opens |-> TRUE, engineError |-> "",
     features |-> <<
        [table_name |-> "buildings", srs_id |-> 27700, column_name |-> "geom",
         readable |-> TRUE,
         rows |-> << Row(1, "H1", Cell(0, 30, 1)) >>] >>,
     stylesListed |-> TRUE, stylesReadable |-> TRUE,
     styles |-> << <<"buildings", "<sld b/>">> >>]

\* two tables in two registered projections, geometry columns named
\* differently, no layer_styles
TwoTables ==
    [opens |-> TRUE, engineError |-> "",
     features |-> <<
        [table_name |-> "roads", srs_id |-> 4326, column_name |-> "geom",
         readable |-> TRUE,
         rows |-> << Row(1, "A1", Cell(5, 74, 1)), Row(2, "B2", Cell(8, 90, 7)) >>],
        [table_name |-> "paths", srs_id |-> 3857, column_name |-> "name",
         readable |-> TRUE,
         rows |-> << [fid |-> 7, name |-> Cell(2, 60, 1), geom |-> "P7"] >>] >>,
     stylesListed |-> FALSE, stylesReadable |-> FALSE, styles |-> <<>>]

\* gpkg_contents lists layer_styles, but the table is missing
StylesListedMissing ==
    [opens |-> TRUE, engineError |-> "no such table: layer_styles",
     features |-> <<
        [table_name |-> "roads", srs_id |-> 4326, column_name |-> "geom",
         readable |-> TRUE,
         rows |-> << Row(1, "A1", Cell(0, 30, 1)) >>] >>,
     stylesListed |-> TRUE, stylesReadable |-> FALSE, styles |-> <<>>]

\* layer_styles holds two styles for roads and one for paths
TwoStylesForOneLayer ==
    [opens |-> TRUE, engineError |-> "",
     features |-> <<
        [table_name |-> "roads", srs_id |-> 4326, column_name |-> "geom",
         readable |-> TRUE,
         rows |-> << Row(1, "A1", Cell(0, 30, 1)) >>] >>,
     stylesListed |-> TRUE, stylesReadable |-> TRUE,
     styles |-> << <<"roads", "<sld default/>">>, <<"paths", "<sld p/>">>,
                   <<"roads", "<sld night/>">> >>]

\* the table layer_styles exists, but gpkg_contents does not list it
StylesUnlisted ==
    [opens |-> TRUE, engineError |-> "",
     features |-> <<
        [table_name |-> "roads", srs_id |-> 4326, column_name |-> "geom",
         readable |-> TRUE,
         rows |-> << Row(1, "A1", Cell(0, 30, 1)) >>] >>,
     stylesListed |-> FALSE, stylesReadable |-> TRUE,
     styles |-> << <<"roads", "<sld/>">> >>]

\* a good table, then a table whose second row is cut off after 5 bytes
TruncatedCell ==
    [opens |-> TRUE, engineError |-> "",
     features |-> <<
        [table_name |-> "roads", srs_id |-> 4326, column_name |-> "geom",
         readable |-> TRUE,
         rows |-> << Row(1, "A1", Cell(0, 30, 1)) >>],
        [table_name |-> "paths", srs_id |-> 3857, column_name |-> "geom",
         readable |-> TRUE,
         rows |-> << Row(1, "P1", Cell(2, 70, 1)), Row(2, "P2", Cell(0, 5, 1)),
                     Row(3, "P3", Cell(0, 30, 1)) >>] >>,
     stylesListed |-> TRUE, stylesReadable |-> TRUE,
     styles |-> << <<"roads", "<sld/>">> >>]

\* a GeoPackage without feature tables and without layer_styles
EmptyPackage ==
    [opens |-> TRUE, engineError |-> "", features |-> <<>>,
     stylesListed |-> FALSE, stylesReadable |-> FALSE, styles |-> <<>>]

\* the catalog names a feature table that is missing
TableMissing ==
    [opens |-> TRUE, engineError |-> "no such table: roads",
     features |-> <<
        [table_name |-> "roads", srs_id |-> 4326, column_name |-> "geom",
         readable |-> FALSE, rows |-> <<>>] >>,
     stylesListed |-> FALSE, stylesReadable |-> FALSE, styles |-> <<>>]

GpkgFiles == << NotADatabase, RoadsAndStyles, BadEnvelopeRow, NoCatalog,
                UnknownProjectionNoRows, UnknownProjectionWithRows, TwoTables,
                StylesListedMissing, TwoStylesForOneLayer, StylesUnlisted,
                TruncatedCell, EmptyPackage, TableMissing >>

\* every file, for the specification of processGpkgData
DataFiles == 1..Len(GpkgFiles)

\* the files the environment serves in the orchestration specification
OrchFiles == {1, 2, 3}

----------------------------------------------------------------------------
(* processGpkgData *)

\* new Error('Unable to extract feature tables from OGC GeoPackage file.\n' + err)
CatalogExtractionFailed(err) == MkError("Error", "CatalogExtractionFailed", 0, err, "")

\* new Error('Missing data projection [' + tableDataProjection + '] for table "' + ...)
UnknownSourceProjection(tableDataProjection, table_name) ==
    MkError("Error", "UnknownSourceProjection", 0, tableDataProjection, table_name)

\* an exception of the SQLite engine that no catch wraps
EngineError(err) == MkError("Error", "External", 0, err, "")

\* an exception of the WKB reader (a DataView read past the end)
DecoderError == MkError("RangeError", "External", 0, "WKB", "")

\* the shortest payload the reader accepts: byte order and geometry type
MinWkbLen == 5

\* featureTableNames.push({...}): srs_id is row[1].toString()
Descriptor(f) ==
    [table_name |-> f.table_name, srs_id |-> ToString(f.srs_id),
     geometry_column_name |-> f.column_name]

\* formatWKB.readFeatures(featureWkb, {dataProjection, featureProjection}):
\* the decoded geometry is kept as the payload and the two projections
ReadFeatures(featureWkb, dataProjection, featureProjection) ==
    IF Len(featureWkb) < MinWkbLen
    THEN [threw |-> TRUE, error |-> DecoderError, geometry |-> <<>>]
    ELSE [threw |-> FALSE, error |-> NoError,
          geometry |-> <<featureWkb, dataProjection, featureProjection>>]

\* DeleteProperty that deletes nothing
DeleteProperty_Keeps(properties, name) == properties

\* delete properties[geometry_column_name]
DeleteProperty(properties, name) ==
    [c \in (DOMAIN properties) \ {name} |-> properties[c]]

\* the body of the while (stmt.step()) loop over the rows k.. of one table
RECURSIVE ExtractRows(_, _, _, _, _, _)
ExtractRows(rows, k, geometry_column_name, tableDataProjection, displayProjection, acc) ==
    IF k > Len(rows)
    THEN [threw |-> FALSE, error |-> NoError, features |-> acc]
    ELSE LET geomProp == rows[k][geometry_column_name]
             properties == DeleteProperty(rows[k], geometry_column_name)
             featureWkb == parseGpkgGeom(geomProp)
             decoded == ReadFeatures(featureWkb.wkb, tableDataProjection,
                                     displayProjection)
         IN  IF featureWkb.threw
             THEN [threw |-> TRUE, error |-> featureWkb.error, features |-> acc]
             ELSE IF decoded.threw
             THEN [threw |-> TRUE, error |-> decoded.error, features |-> acc]
             ELSE ExtractRows(rows, k + 1, geometry_column_name,
                              tableDataProjection, displayProjection,
                              Append(acc, [properties |-> properties,
                                           geometry |-> decoded.geometry]))

\* the for (let table of featureTableNames) loop from table k on
RECURSIVE ExtractTables(_, _, _, _)
ExtractTables(file, k, displayProjection, dataFromGpkg) ==
    IF k > Len(file.features)
    THEN [threw |-> FALSE, error |-> NoError, data |-> dataFromGpkg]
    ELSE LET table == Descriptor(file.features[k])
             table_name == table.table_name
             tableDataProjection == "EPSG:" \o table.srs_id
             extracted == ExtractRows(file.features[k].rows, 1,
                                      table.geometry_column_name,
                                      tableDataProjection, displayProjection, <<>>)
         IN  IF ~ol_proj_get(tableDataProjection)
             THEN [threw |-> TRUE,
                   error |-> UnknownSourceProjection(tableDataProjection, table_name),
                   data |-> dataFromGpkg]
             ELSE IF ~file.features[k].readable
             THEN [threw |-> TRUE, error |-> EngineError(file.engineError),
                   data |-> dataFromGpkg]
             ELSE IF extracted.threw
             THEN [threw |-> TRUE, error |-> extracted.error, data |-> dataFromGpkg]
             ELSE ExtractTables(file, k + 1, displayProjection,
                    (table_name :> [origProjection |-> tableDataProjection,
                                    features |-> extracted.features])
                    @@ dataFromGpkg)

\* ReadStyles that keeps the first style of a layer
RECURSIVE ReadStyles_FirstWins(_, _, _)
ReadStyles_FirstWins(styles, k, sldsFromGpkg) ==
    IF k > Len(styles)
    THEN sldsFromGpkg
    ELSE ReadStyles_FirstWins(styles, k + 1,
                              sldsFromGpkg @@ (styles[k][1] :> styles[k][2]))

\* sldsFromGpkg[row[0]] = row[1] for the rows k.. of layer_styles
RECURSIVE ReadStyles(_, _, _)
ReadStyles(styles, k, sldsFromGpkg) ==
    IF k > Len(styles)
    THEN sldsFromGpkg
    ELSE ReadStyles(styles, k + 1, (styles[k][1] :> styles[k][2]) @@ sldsFromGpkg)

\* the empty object {}
EmptyObject == [c \in {} |-> 0]

NoResult == [data |-> EmptyObject, slds |-> EmptyObject]

\* processGpkgData(loadedGpkgFile, gpkgByteArray, sqlWasm, displayProjection):
\* it throws, or returns [dataFromGpkg, sldsFromGpkg]
processGpkgData(gpkgByteArray, displayProjection) ==
    LET file == GpkgFiles[gpkgByteArray]
        sldsFromGpkg == IF file.stylesListed
                        THEN ReadStyles(file.styles, 1, EmptyObject)
                        ELSE EmptyObject
        tables == ExtractTables(file, 1, displayProjection, EmptyObject)
    IN  IF ~file.opens
        THEN [threw |-> TRUE, error |-> CatalogExtractionFailed(file.engineError),
              result |-> NoResult]
        ELSE IF file.stylesListed /\ ~file.stylesReadable
        THEN [threw |-> TRUE, error |-> EngineError(file.engineError),
              result |-> NoResult]
        ELSE IF tables.threw
        THEN [threw |-> TRUE, error |-> tables.error, result |-> NoResult]
        ELSE [threw |-> FALSE, error |-> NoError,
              result |-> [data |-> tables.data, slds |-> sldsFromGpkg]]

----------------------------------------------------------------------------
(* processGpkgData, statement by statement.  pg is the activation record:  *)
(*   pc                 where it stands: idle (not called), catalog (at the *)
(*                      try block), styles (at the layer_styles probe),     *)
(*                      table (at the head of the for loop), rows (at the   *)
(*                      head of the while loop), done (returned or threw)   *)
(*   gpkgByteArray, displayProjection    its arguments                      *)
(*   featureTableNames, sldsFromGpkg, dataFromGpkg    its local variables   *)
(*   k, j               the table of the for loop, the row of the while loop *)
(*   features           the features added to vectorSource so far           *)
(*   selected           the tables a SELECT * was prepared for, in order    *)
(*   stepped            per table of featureTableNames, the rows stepped    *)
(*   threw, error       it threw error                                      *)
(*   result             what it returned                                    *)

PgIdle ==
    [pc |-> "idle", gpkgByteArray |-> 0, displayProjection |-> "",
     featureTableNames |-> <<>>, sldsFromGpkg |-> EmptyObject,
     dataFromGpkg |-> EmptyObject, k |-> 0, j |-> 0, features |-> <<>>,
     selected |-> <<>>, stepped |-> <<>>, threw |-> FALSE, error |-> NoError,
     result |-> NoResult]

\* the call processGpkgData(_, gpkgByteArray, sqlWasm, displayProjection)
PgCalled(gpkgByteArray, displayProjection) ==
    [PgIdle EXCEPT !.pc = "catalog", !.gpkgByteArray = gpkgByteArray,
                   !.displayProjection = displayProjection]

\* throw error: the activation ends, nothing is returned
PgThrow(p, error) ==
    [p EXCEPT !.pc = "done", !.threw = TRUE, !.error = error]

\* PgCatalogStep without the try/catch around the catalog query
PgCatalogStep_NoCatch(p) ==
    LET file == GpkgFiles[p.gpkgByteArray]
    IN  IF ~file.opens
        THEN PgThrow(p, EngineError(file.engineError))
        ELSE [p EXCEPT !.pc = "styles",
                       !.featureTableNames =
                           [t \in 1..Len(file.features) |-> Descriptor(file.features[t])],
                       !.stepped = [t \in 1..Len(file.features) |-> 0]]

\* the try block: new sqlWasm.Database, the catalog query and its row loop;
\* the catch wraps whatever they throw
PgCatalogStep(p) ==
    LET file == GpkgFiles[p.gpkgByteArray]
    IN  IF ~file.opens
        THEN PgThrow(p, CatalogExtractionFailed(file.engineError))
        ELSE [p EXCEPT !.pc = "styles",
                       !.featureTableNames =
                           [t \in 1..Len(file.features) |-> Descriptor(file.features[t])],
                       !.stepped = [t \in 1..Len(file.features) |-> 0]]

\* PgStylesStep with the style query inside the catalog try/catch
PgStylesStep_Caught(p) ==
    LET file == GpkgFiles[p.gpkgByteArray]
    IN  IF ~file.stylesListed
        THEN [p EXCEPT !.pc = "table", !.k = 1]
        ELSE IF ~file.stylesReadable
        THEN PgThrow(p, CatalogExtractionFailed(file.engineError))
        ELSE [p EXCEPT !.pc = "table", !.k = 1,
                       !.sldsFromGpkg = ReadStyles(file.styles, 1, EmptyObject)]

\* the probe of gpkg_contents for layer_styles and, if it finds a row, the
\* style query and its row loop; nothing catches what they throw
PgStylesStep(p) ==
    LET file == GpkgFiles[p.gpkgByteArray]
    IN  IF ~file.stylesListed
        THEN [p EXCEPT !.pc = "table", !.k = 1]
        ELSE IF ~file.stylesReadable
        THEN PgThrow(p, EngineError(file.engineError))
        ELSE [p EXCEPT !.pc = "table", !.k = 1,
                       !.sldsFromGpkg = ReadStyles(file.styles, 1, EmptyObject)]

\* PgTableStep without the check of the table's projection
PgTableStep_NoProjCheck(p) ==
    LET file == GpkgFiles[p.gpkgByteArray]
        table == p.featureTableNames[p.k]
    IN  IF p.k > Len(p.featureTableNames)
        THEN [p EXCEPT !.pc = "done",
                       !.result = [data |-> p.dataFromGpkg, slds |-> p.sldsFromGpkg]]
        ELSE IF ~file.features[p.k].readable
        THEN PgThrow(p, EngineError(file.engineError))
        ELSE [p EXCEPT !.pc = "rows", !.j = 1, !.features = <<>>,
                       !.selected = Append(@, table.table_name)]

\* the head of the for loop: past the last table, return; else the
\* projection check of table k and the preparation of its SELECT *
PgTableStep(p) ==
    LET file == GpkgFiles[p.gpkgByteArray]
        table == p.featureTableNames[p.k]
        tableDataProjection == "EPSG:" \o table.srs_id
    IN  IF p.k > Len(p.featureTableNames)
        THEN [p EXCEPT !.pc = "done",
                       !.result = [data |-> p.dataFromGpkg, slds |-> p.sldsFromGpkg]]
        ELSE IF ~ol_proj_get(tableDataProjection)
        THEN PgThrow(p, UnknownSourceProjection(tableDataProjection, table.table_name))
        ELSE IF ~file.features[p.k].readable
        THEN PgThrow(p, EngineError(file.engineError))
        ELSE [p EXCEPT !.pc = "rows", !.j = 1, !.features = <<>>,
                       !.selected = Append(@, table.table_name)]

\* PgRowStep with a try/catch per row: a row that fails is left out
PgRowStep_SkipsBadRow(p) ==
    LET file == GpkgFiles[p.gpkgByteArray]
        table == p.featureTableNames[p.k]
        tableDataProjection == "EPSG:" \o table.srs_id
        rows == file.features[p.k].rows
        geomProp == rows[p.j][table.geometry_column_name]
        properties == DeleteProperty(rows[p.j], table.geometry_column_name)
        featureWkb == parseGpkgGeom(geomProp)
        decoded == ReadFeatures(featureWkb.wkb, tableDataProjection,
                                p.displayProjection)
        read == [p EXCEPT !.stepped[p.k] = @ + 1]
    IN  IF p.j > Len(rows)
        THEN [p EXCEPT !.pc = "table", !.k = @ + 1, !.j = 0, !.features = <<>>,
                       !.dataFromGpkg =
                           (table.table_name :>
                                [origProjection |-> tableDataProjection,
                                 features |-> p.features]) @@ @]
        ELSE IF featureWkb.threw \/ decoded.threw
        THEN [read EXCEPT !.j = @ + 1]
        ELSE [read EXCEPT !.j = @ + 1,
                          !.features = Append(@, [properties |-> properties,
                                                  geometry |-> decoded.geometry])]

\* PgRowStep that hands the decoder the two projections the wrong way round
PgRowStep_SwapsProjections(p) ==
    LET file == GpkgFiles[p.gpkgByteArray]
        table == p.featureTableNames[p.k]
        tableDataProjection == "EPSG:" \o table.srs_id
        rows == file.features[p.k].rows
        geomProp == rows[p.j][table.geometry_column_name]
        properties == DeleteProperty(rows[p.j], table.geometry_column_name)
        featureWkb == parseGpkgGeom(geomProp)
        decoded == ReadFeatures(featureWkb.wkb, p.displayProjection,
                                tableDataProjection)
        read == [p EXCEPT !.stepped[p.k] = @ + 1]
    IN  IF p.j > Len(rows)
        THEN [p EXCEPT !.pc = "table", !.k = @ + 1, !.j = 0, !.features = <<>>,
                       !.dataFromGpkg =
                           (table.table_name :>
                                [origProjection |-> tableDataProjection,
                                 features |-> p.features]) @@ @]
        ELSE IF featureWkb.threw
        THEN PgThrow(read, featureWkb.error)
        ELSE IF decoded.threw
        THEN PgThrow(read, decoded.error)
        ELSE [read EXCEPT !.j = @ + 1,
                          !.features = Append(@, [properties |-> properties,
                                                  geometry |-> decoded.geometry])]

\* the head of the while loop: after the last row, tag the source and store
\* it under the table name; else read row j, strip its geometry column, parse
\* and decode it, and add the feature
PgRowStep(p) ==
    LET file == GpkgFiles[p.gpkgByteArray]
        table == p.featureTableNames[p.k]
        tableDataProjection == "EPSG:" \o table.srs_id
        rows == file.features[p.k].rows
        geomProp == rows[p.j][table.geometry_column_name]
        properties == DeleteProperty(rows[p.j], table.geometry_column_name)
        featureWkb == parseGpkgGeom(geomProp)
        decoded == ReadFeatures(featureWkb.wkb, tableDataProjection,
                                p.displayProjection)
        read == [p EXCEPT !.stepped[p.k] = @ + 1]
    IN  IF p.j > Len(rows)
        THEN [p EXCEPT !.pc = "table", !.k = @ + 1, !.j = 0, !.features = <<>>,
                       !.dataFromGpkg =
                           (table.table_name :>
                                [origProjection |-> tableDataProjection,
                                 features |-> p.features]) @@ @]
        ELSE IF featureWkb.threw
        THEN PgThrow(read, featureWkb.error)
        ELSE IF decoded.threw
        THEN PgThrow(read, decoded.error)
        ELSE [read EXCEPT !.j = @ + 1,
                          !.features = Append(@, [properties |-> properties,
                                                  geometry |-> decoded.geometry])]

----------------------------------------------------------------------------
(* Promises *)

\* a promise of initSqlJs(): pending, fulfilled (with the sql.js library) or
\* rejected with a reason
PendingWasm == [state |-> "pending", reason |-> ""]

\* the promise of readRawGpkg(), with where the async function stands:
\*   fetching   suspended at  await fetch(input)
\*   reading    suspended at  await gpkgSource.bytes() / .arrayBuffer()
\*   fulfilled  returned the byte array (bytes is the file it holds)
\*   rejected   threw error
\* status is response.status once a response arrived (0 before, and for a
\* Blob); fetched and bodyReads count the fetch() calls and body reads made
ReadPromise(state, bytes, error, status, fetched, bodyReads) ==
    [state |-> state, bytes |-> bytes, error |-> error, status |-> status,
     fetched |-> fetched, bodyReads |-> bodyReads]

Settled(promise) == promise.state \in {"fulfilled", "rejected"}

----------------------------------------------------------------------------
(* initSqlJsWasm *)

\* InitSqlJsWasm that keeps the signal of the first call
InitSqlJsWasm_KeepsFirstSignal ==
    /\ Len(sqlWasmPromises) < MaxInit
    /\ sqlWasmPromises' = Append(sqlWasmPromises, PendingWasm)
    /\ promiseSqlWasmLoaded' = IF promiseSqlWasmLoaded # 0
                               THEN promiseSqlWasmLoaded
                               ELSE Len(sqlWasmPromises) + 1
    /\ UNCHANGED <<consoleErrors, loads, thrown, geomVars, dataVars, pairVars>>

\* promiseSqlWasmLoaded = initSqlJs({...}); return promiseSqlWasmLoaded
\* (sqlJsWasmDir only tells the environment where to look for the file)
InitSqlJsWasm ==
    /\ Len(sqlWasmPromises) < MaxInit
    /\ sqlWasmPromises' = Append(sqlWasmPromises, PendingWasm)
    /\ promiseSqlWasmLoaded' = Len(sqlWasmPromises) + 1
    /\ UNCHANGED <<consoleErrors, loads, thrown, geomVars, dataVars, pairVars>>

\* the environment fulfils the g-th initSqlJs() promise
SqlWasmLoaded(g) ==
    /\ sqlWasmPromises[g].state = "pending"
    /\ sqlWasmPromises' = [sqlWasmPromises EXCEPT ![g].state = "fulfilled"]
    /\ UNCHANGED <<promiseSqlWasmLoaded, consoleErrors, loads, thrown, geomVars, dataVars, pairVars>>

\* SqlWasmFailed of a module whose signal is cleared when the load fails
SqlWasmFailed_ClearsSignal(g, reason) ==
    /\ sqlWasmPromises[g].state = "pending"
    /\ sqlWasmPromises' = [sqlWasmPromises EXCEPT
                              ![g] = [state |-> "rejected", reason |-> reason]]
    /\ promiseSqlWasmLoaded' = IF promiseSqlWasmLoaded = g THEN 0
                               ELSE promiseSqlWasmLoaded
    /\ UNCHANGED <<consoleErrors, loads, thrown, geomVars, dataVars, pairVars>>

\* the environment rejects the g-th initSqlJs() promise; the reaction of the
\* .catch handler attached by initSqlJsWasm is queued and has not run yet
SqlWasmFailed(g, reason) ==
    /\ sqlWasmPromises[g].state = "pending"
    /\ sqlWasmPromises' = [sqlWasmPromises EXCEPT
                              ![g] = [state |-> "rejected", reason |-> reason]]
    /\ UNCHANGED <<promiseSqlWasmLoaded, consoleErrors, loads, thrown,
                   geomVars, dataVars, pairVars>>

\* the .catch handler attached by initSqlJsWasm to the g-th promise runs: it
\* reports the rejection with console.error and throws nothing
SqlWasmCatch(g) ==
    /\ sqlWasmPromises[g].state = "rejected"
    /\ g \notin consoleErrors
    /\ consoleErrors' = consoleErrors \cup {g}
    /\ UNCHANGED <<promiseSqlWasmLoaded, sqlWasmPromises, loads, thrown,
                   geomVars, dataVars, pairVars>>

\* the .catch handler of the g-th promise is not waiting to run.  It was
\* attached in initSqlJsWasm, before any loadGpkg call could attach
\* allSettled to the promise, so its reaction is ahead of theirs in the queue
CatchHasRun(g) == sqlWasmPromises[g].state = "rejected" => g \in consoleErrors

----------------------------------------------------------------------------
(* readRawGpkg *)

\* readRawGpkg without the  input instanceof URL  alternative
readRawGpkg_StringOnly(input) ==
    IF input = "Blob"
    THEN ReadPromise("reading", 0, NoError, 0, 0, 1)
    ELSE IF input = "string"
    THEN ReadPromise("fetching", 0, NoError, 0, 1, 0)
    ELSE ReadPromise("rejected", 0, InvalidInputKind, 0, 0, 0)

\* the async function up to its first suspension
readRawGpkg(input) ==
    IF input = "Blob"
    THEN ReadPromise("reading", 0, NoError, 0, 0, 1)
    ELSE IF input \in {"string", "URL"}
    THEN ReadPromise("fetching", 0, NoError, 0, 1, 0)
    ELSE ReadPromise("rejected", 0, InvalidInputKind, 0, 0, 0)

\* AfterResponse without the  !response.ok  check
AfterResponse_NoOkCheck(read, status) ==
    [read EXCEPT !.status = status, !.state = "reading", !.bodyReads = @ + 1]

\* await fetch(input) resumes with a response
AfterResponse(read, status) ==
    IF ~ResponseOk(status)
    THEN [read EXCEPT !.status = status, !.state = "rejected",
                      !.error = SourceUnreachable(status)]
    ELSE [read EXCEPT !.status = status, !.state = "reading", !.bodyReads = @ + 1]

\* AfterFetchRejection that fetches once more
AfterFetchRejection_Retries(read, reason) ==
    IF read.fetched < 2
    THEN [read EXCEPT !.fetched = @ + 1]
    ELSE [read EXCEPT !.state = "rejected", !.error = FetchRejection(reason)]

\* await fetch(input) throws: nothing catches it, the promise rejects with it
AfterFetchRejection(read, reason) ==
    [read EXCEPT !.state = "rejected", !.error = FetchRejection(reason)]

\* await gpkgSource.bytes() (or .arrayBuffer()) resumes with the bytes
AfterBody(read, bytes) ==
    [read EXCEPT !.state = "fulfilled", !.bytes = bytes]

\* await gpkgSource.bytes() (or .arrayBuffer()) throws inside the try
AfterBodyRejection(read, cause) ==
    [read EXCEPT !.state = "rejected", !.error = BodyReadFailed(cause)]

FetchResponds(i, status) ==
    /\ loads[i].read.state = "fetching"
    /\ loads' = [loads EXCEPT ![i].read = AfterResponse(@, status)]
    /\ UNCHANGED <<promiseSqlWasmLoaded, sqlWasmPromises, consoleErrors, thrown,
                   geomVars, dataVars, pairVars>>

FetchRejects(i, reason) ==
    /\ loads[i].read.state = "fetching"
    /\ loads' = [loads EXCEPT ![i].read = AfterFetchRejection(@, reason)]
    /\ UNCHANGED <<promiseSqlWasmLoaded, sqlWasmPromises, consoleErrors, thrown,
                   geomVars, dataVars, pairVars>>

BodyArrives(i, bytes) ==
    /\ loads[i].read.state = "reading"
    /\ loads' = [loads EXCEPT ![i].read = AfterBody(@, bytes)]
    /\ UNCHANGED <<promiseSqlWasmLoaded, sqlWasmPromises, consoleErrors, thrown,
                   geomVars, dataVars, pairVars>>

BodyRejects(i, cause) ==
    /\ loads[i].read.state = "reading"
    /\ loads' = [loads EXCEPT ![i].read = AfterBodyRejection(@, cause)]
    /\ UNCHANGED <<promiseSqlWasmLoaded, sqlWasmPromises, consoleErrors, thrown,
                   geomVars, dataVars, pairVars>>

----------------------------------------------------------------------------
(* loadGpkg *)

\* SyncChecks without the  promiseSqlWasmLoaded === undefined  check
SyncChecks_NoInitCheck(wasmLoaded, displayProjection) ==
    IF ~ol_proj_get(displayProjection)
    THEN UnknownDisplayProjection(displayProjection)
    ELSE NoError

\* SyncChecks without the display projection check
SyncChecks_NoProjCheck(wasmLoaded, displayProjection) ==
    IF wasmLoaded = 0
    THEN WasmNotInitialized
    ELSE NoError

\* SyncChecks with the two checks in the other order
SyncChecks_ProjCheckFirst(wasmLoaded, displayProjection) ==
    IF ~ol_proj_get(displayProjection)
    THEN UnknownDisplayProjection(displayProjection)
    ELSE IF wasmLoaded = 0
    THEN WasmNotInitialized
    ELSE NoError

\* the two checks at the top of loadGpkg: the error thrown, or NoError
SyncChecks(wasmLoaded, displayProjection) ==
    IF wasmLoaded = 0
    THEN WasmNotInitialized
    ELSE IF ~ol_proj_get(displayProjection)
    THEN UnknownDisplayProjection(displayProjection)
    ELSE NoError

\* whether readRawGpkg(gpkgFile) is called before the checks have passed
ReadStartsBeforeChecks == FALSE

\* the join of Promise.all: done at the first rejection
AllSettled_FirstRejection(wasm, read) ==
    \/ Settled(wasm) /\ Settled(read)
    \/ wasm.state = "rejected"
    \/ read.state = "rejected"

\* AllSettled that is complete only when both have fulfilled
AllSettled_BothFulfilled(wasm, read) ==
    wasm.state = "fulfilled" /\ read.state = "fulfilled"

\* Promise.allSettled([promiseSqlWasmLoaded, gpkgReadPromise]) has settled
AllSettled(wasm, read) == Settled(wasm) /\ Settled(read)

\* OnSettled with the two rejection checks in the other order
OnSettled_FetchFirst(wasm, read, displayProjection) ==
    LET processed == processGpkgData(read.bytes, displayProjection)
    IN  IF read.state = "rejected"
        THEN [future |-> "rejected", error |-> read.error,
              result |-> NoResult, extracted |-> FALSE]
        ELSE IF wasm.state = "rejected"
        THEN [future |-> "rejected", error |-> WasmLoadFailed(wasm.reason),
              result |-> NoResult, extracted |-> FALSE]
        ELSE IF processed.threw
        THEN [future |-> "rejected", error |-> processed.error,
              result |-> NoResult, extracted |-> TRUE]
        ELSE [future |-> "fulfilled", error |-> NoError,
              result |-> processed.result, extracted |-> TRUE]

\* OnSettled without the check of results[0]: the extraction is entered with
\* no sql.js library, and its catch reports whatever that throws
OnSettled_NoEngineCheck(wasm, read, displayProjection) ==
    LET processed == processGpkgData(read.bytes, displayProjection)
    IN  IF read.state = "rejected"
        THEN [future |-> "rejected", error |-> read.error,
              result |-> NoResult, extracted |-> FALSE]
        ELSE IF wasm.state = "rejected"
        THEN [future |-> "rejected", error |-> CatalogExtractionFailed(wasm.reason),
              result |-> NoResult, extracted |-> TRUE]
        ELSE IF processed.threw
        THEN [future |-> "rejected", error |-> processed.error,
              result |-> NoResult, extracted |-> TRUE]
        ELSE [future |-> "fulfilled", error |-> NoError,
              result |-> processed.result, extracted |-> TRUE]

\* the .then callback on the results of allSettled
OnSettled(wasm, read, displayProjection) ==
    LET processed == processGpkgData(read.bytes, displayProjection)
    IN  IF wasm.state = "rejected"
        THEN [future |-> "rejected", error |-> WasmLoadFailed(wasm.reason),
              result |-> NoResult, extracted |-> FALSE]
        ELSE IF read.state = "rejected"
        THEN [future |-> "rejected", error |-> read.error,
              result |-> NoResult, extracted |-> FALSE]
        ELSE IF processed.threw
        THEN [future |-> "rejected", error |-> processed.error,
              result |-> NoResult, extracted |-> TRUE]
        ELSE [future |-> "fulfilled", error |-> NoError,
              result |-> processed.result, extracted |-> TRUE]

\* LoadGpkg that forgets the engine when it throws
LoadGpkg_ClearsSignalOnThrow(gpkgFile, displayProjection) ==
    LET error == SyncChecks(promiseSqlWasmLoaded, displayProjection)
    IN  IF error # NoError
        THEN /\ thrown' = [called |-> TRUE,
                           displayProjection |-> displayProjection,
                           initialised |-> promiseSqlWasmLoaded # 0,
                           error |-> error,
                           fetched |-> 0]
             /\ promiseSqlWasmLoaded' = 0
             /\ UNCHANGED <<sqlWasmPromises, consoleErrors,
                            loads, geomVars, dataVars, pairVars>>
        ELSE /\ Len(loads) < MaxLoads
             /\ loads' = Append(loads,
                    [gpkgFile |-> gpkgFile,
                     displayProjection |-> displayProjection,
                     awaited |-> promiseSqlWasmLoaded,
                     read |-> readRawGpkg(gpkgFile),
                     future |-> "pending", error |-> NoError,
                     result |-> NoResult, extracted |-> FALSE])
             /\ UNCHANGED <<promiseSqlWasmLoaded, sqlWasmPromises, consoleErrors,
                            thrown, geomVars, dataVars, pairVars>>

\* a call loadGpkg(gpkgFile, displayProjection): it throws, or it starts
\* readRawGpkg and returns the promise chained on allSettled
LoadGpkg(gpkgFile, displayProjection) ==
    LET error == SyncChecks(promiseSqlWasmLoaded, displayProjection)
    IN  IF error # NoError
        THEN /\ thrown' = [called |-> TRUE,
                           displayProjection |-> displayProjection,
                           initialised |-> promiseSqlWasmLoaded # 0,
                           error |-> error,
                           fetched |-> IF ReadStartsBeforeChecks
                                       THEN readRawGpkg(gpkgFile).fetched
                                       ELSE 0]
             /\ UNCHANGED <<promiseSqlWasmLoaded, sqlWasmPromises, consoleErrors,
                            loads, geomVars, dataVars, pairVars>>
        ELSE /\ Len(loads) < MaxLoads
             /\ loads' = Append(loads,
                    [gpkgFile |-> gpkgFile,
                     displayProjection |-> displayProjection,
                     awaited |-> promiseSqlWasmLoaded,
                     read |-> readRawGpkg(gpkgFile),
                     future |-> "pending", error |-> NoError,
                     result |-> NoResult, extracted |-> FALSE])
             /\ UNCHANGED <<promiseSqlWasmLoaded, sqlWasmPromises, consoleErrors,
                            thrown, geomVars, dataVars, pairVars>>

\* Join with one database shared by the calls: the bytes extracted are those
\* of the last call whose read has delivered
Join_SharedBytes(i) ==
    LET delivered == {j \in 1..Len(loads) : loads[j].read.state = "fulfilled"}
        last == CHOOSE j \in delivered : \A other \in delivered : other <= j
        read == IF loads[i].read.state = "fulfilled"
                THEN loads[last].read
                ELSE loads[i].read
    IN  /\ loads[i].future = "pending"
        /\ AllSettled(sqlWasmPromises[loads[i].awaited], loads[i].read)
        /\ CatchHasRun(loads[i].awaited)
        /\ loads' = [loads EXCEPT ![i] =
                        OnSettled(sqlWasmPromises[loads[i].awaited], read,
                                  loads[i].displayProjection) @@ @]
        /\ UNCHANGED <<promiseSqlWasmLoaded, sqlWasmPromises, consoleErrors, thrown,
                       geomVars, dataVars, pairVars>>

\* Join that looks the signal up when it runs: it waits for, and reports,
\* the promise of the latest initSqlJsWasm call
Join_AwaitsCurrentSignal(i) ==
    /\ loads[i].future = "pending"
    /\ AllSettled(sqlWasmPromises[promiseSqlWasmLoaded], loads[i].read)
    /\ CatchHasRun(promiseSqlWasmLoaded)
    /\ loads' = [loads EXCEPT ![i] =
                    OnSettled(sqlWasmPromises[promiseSqlWasmLoaded], loads[i].read,
                              loads[i].displayProjection) @@ @]
    /\ UNCHANGED <<promiseSqlWasmLoaded, sqlWasmPromises, consoleErrors, thrown,
                   geomVars, dataVars, pairVars>>

\* the promise returned by the i-th load settles: the allSettled join is
\* complete and its .then callback runs, after the reactions queued before
\* its own
Join(i) ==
    /\ loads[i].future = "pending"
    /\ AllSettled(sqlWasmPromises[loads[i].awaited], loads[i].read)
    /\ CatchHasRun(loads[i].awaited)
    /\ loads' = [loads EXCEPT ![i] =
                    OnSettled(sqlWasmPromises[loads[i].awaited], loads[i].read,
                              loads[i].displayProjection) @@ @]
    /\ UNCHANGED <<promiseSqlWasmLoaded, sqlWasmPromises, consoleErrors, thrown,
                   geomVars, dataVars, pairVars>>

----------------------------------------------------------------------------
(* Spec: the orchestration *)

NotThrown == [called |-> FALSE, displayProjection |-> "",
              initialised |-> FALSE, error |-> NoError, fetched |-> 0]

NotParsed == [called |-> FALSE, threw |-> FALSE, error |-> NoError, wkbOffset |-> 0,
              begin |-> 0, wkb |-> <<>>]

\* SpecGeomPair is not running
NoOtherCell == [cell |-> <<>>, result |-> NotParsed]

OrchInitial ==
    /\ promiseSqlWasmLoaded = 0
    /\ sqlWasmPromises = <<>>
    /\ consoleErrors = {}
    /\ loads = <<>>
    /\ thrown = NotThrown

Init ==
    /\ OrchInitial
    /\ gpkgBinGeom = <<>>
    /\ geomResult = NotParsed
    /\ pg = PgIdle
    /\ geomOther = NoOtherCell

Next ==
    \/ InitSqlJsWasm
    \/ \E g \in 1..Len(sqlWasmPromises) : SqlWasmLoaded(g)
    \/ \E g \in 1..Len(sqlWasmPromises), reason \in WasmRejections :
           SqlWasmFailed(g, reason)
    \/ \E g \in 1..Len(sqlWasmPromises) : SqlWasmCatch(g)
    \/ \E gpkgFile \in GpkgInputs, displayProjection \in DisplayProjections :
           LoadGpkg(gpkgFile, displayProjection)
    \/ \E i \in 1..Len(loads), status \in HttpStatuses : FetchResponds(i, status)
    \/ \E i \in 1..Len(loads), reason \in FetchRejections : FetchRejects(i, reason)
    \/ \E i \in 1..Len(loads), bytes \in OrchFiles : BodyArrives(i, bytes)
    \/ \E i \in 1..Len(loads), cause \in BodyRejections : BodyRejects(i, cause)
    \/ \E i \in 1..Len(loads) : Join(i)

Spec == Init /\ [][Next]_vars

----------------------------------------------------------------------------
(* SpecLive: the orchestration, with the scheduling the runtime gives:     *)
(* the callbacks of a settled promise are run, every engine load settles,  *)
(* and every request and body read under way comes to an end               *)

JoinRuns(i) == i \in 1..Len(loads) /\ Join(i)

EngineLoadSettles(g) ==
    /\ g \in 1..Len(sqlWasmPromises)
    /\ \/ SqlWasmLoaded(g)
       \/ \E reason \in WasmRejections : SqlWasmFailed(g, reason)

ReadProgresses(i) ==
    /\ i \in 1..Len(loads)
    /\ \/ \E status \in HttpStatuses : FetchResponds(i, status)
       \/ \E reason \in FetchRejections : FetchRejects(i, reason)
       \/ \E bytes \in OrchFiles : BodyArrives(i, bytes)
       \/ \E cause \in BodyRejections : BodyRejects(i, cause)

CatchRuns(g) == g \in 1..Len(sqlWasmPromises) /\ SqlWasmCatch(g)

Fairness ==
    /\ \A i \in 1..MaxLoads : WF_vars(JoinRuns(i))
    /\ \A g \in 1..MaxInit : WF_vars(CatchRuns(g))
    /\ \A g \in 1..MaxInit : WF_vars(EngineLoadSettles(g))
    /\ \A i \in 1..MaxLoads : WF_vars(ReadProgresses(i))

SpecLive == Spec /\ Fairness

----------------------------------------------------------------------------
(* SpecOverlap: two loadGpkg calls made one after the other, before        *)
(* anything they wait for has settled                                      *)

\* what loadGpkg(gpkgFile, displayProjection) appends when it has passed its
\* checks with the signal awaited
StartedLoad(gpkgFile, displayProjection, awaited) ==
    [gpkgFile |-> gpkgFile, displayProjection |-> displayProjection,
     awaited |-> awaited, read |-> readRawGpkg(gpkgFile),
     future |-> "pending", error |-> NoError,
     result |-> NoResult, extracted |-> FALSE]

\* initSqlJsWasm(); loadGpkg(a, p); loadGpkg(b, q)
OverlapInit ==
    /\ promiseSqlWasmLoaded = 1
    /\ sqlWasmPromises = <<PendingWasm>>
    /\ consoleErrors = {}
    /\ \E a \in GpkgInputs, b \in GpkgInputs,
          p \in DisplayProjections \cap RegisteredProjections,
          q \in DisplayProjections \cap RegisteredProjections :
           loads = << StartedLoad(a, p, 1), StartedLoad(b, q, 1) >>
    /\ thrown = NotThrown
    /\ gpkgBinGeom = <<>>
    /\ geomResult = NotParsed
    /\ pg = PgIdle
    /\ geomOther = NoOtherCell

NextOverlap ==
    \/ \E g \in 1..Len(sqlWasmPromises) : SqlWasmLoaded(g)
    \/ \E g \in 1..Len(sqlWasmPromises), reason \in WasmRejections :
           SqlWasmFailed(g, reason)
    \/ \E g \in 1..Len(sqlWasmPromises) : SqlWasmCatch(g)
    \/ \E i \in 1..Len(loads), status \in HttpStatuses : FetchResponds(i, status)
    \/ \E i \in 1..Len(loads), reason \in FetchRejections : FetchRejects(i, reason)
    \/ \E i \in 1..Len(loads), bytes \in OrchFiles : BodyArrives(i, bytes)
    \/ \E i \in 1..Len(loads), cause \in BodyRejections : BodyRejects(i, cause)
    \/ \E i \in 1..Len(loads) : Join(i)

SpecOverlap == OverlapInit /\ [][NextOverlap]_vars

----------------------------------------------------------------------------
(* SpecGeom: geometry cells and the parser applied to them *)

GeomInit ==
    /\ OrchInitial
    /\ \E flags \in Byte, len \in 0..MaxCellLen, fill \in Fills :
           gpkgBinGeom = Cell(flags, len, fill)
    /\ geomResult = NotParsed
    /\ pg = PgIdle
    /\ geomOther = NoOtherCell

\* a row's geometry column value is passed through the parser
ParseGpkgGeom ==
    /\ ~geomResult.called
    /\ geomResult' = [called |-> TRUE] @@ parseGpkgGeom(gpkgBinGeom)
    /\ UNCHANGED <<gpkgBinGeom, orchVars, dataVars, pairVars>>

\* the next row's cell, once the row before it has been parsed without a
\* throw: same length, another flags byte
NextCell ==
    /\ geomResult.called
    /\ ~geomResult.threw
    /\ Len(gpkgBinGeom) >= 4
    /\ \E flags \in {0, 2, 11} :
           gpkgBinGeom' = [gpkgBinGeom EXCEPT ![4] = flags]
    /\ geomResult' = NotParsed
    /\ UNCHANGED <<orchVars, dataVars, pairVars>>

NextGeom == ParseGpkgGeom \/ NextCell

SpecGeom == GeomInit /\ [][NextGeom]_vars

----------------------------------------------------------------------------
(* SpecGeomPair: the geometry cells of two rows, passed through the parser *)
(* one after the other                                                     *)

\* flags bytes of the second cell: every value of bits 1-3, with all the
\* other bits clear and with all of them set
PairFlags == {2 * e + other : e \in 0..7, other \in {0, 241}}

GeomPairInit ==
    /\ OrchInitial
    /\ \E flags \in Byte, len \in {4, MaxCellLen}, fill \in Fills :
           gpkgBinGeom = Cell(flags, len, fill)
    /\ geomResult = NotParsed
    /\ \E flags \in PairFlags, fill \in Fills :
           geomOther = [cell |-> Cell(flags, MaxCellLen, fill), result |-> NotParsed]
    /\ pg = PgIdle

\* the other cell, of the next row, is passed through the parser once the
\* first has been parsed without a throw
ParseOtherGeom ==
    /\ geomResult.called
    /\ ~geomResult.threw
    /\ ~geomOther.result.called
    /\ geomOther' = [geomOther EXCEPT
                        !.result = [called |-> TRUE] @@ parseGpkgGeom(geomOther.cell)]
    /\ UNCHANGED <<geomVars, orchVars, dataVars>>

NextGeomPair == ParseGpkgGeom \/ ParseOtherGeom

SpecGeomPair == GeomPairInit /\ [][NextGeomPair]_vars

----------------------------------------------------------------------------
(* SpecData: processGpkgData on a file, for a load whose engine and bytes   *)
(* are both there.  A throw rejects the promise of the load with the error  *)
(* thrown; a return fulfils it with the result.                             *)

DataInit ==
    /\ OrchInitial
    /\ gpkgBinGeom = <<>>
    /\ geomResult = NotParsed
    /\ geomOther = NoOtherCell
    /\ \E gpkgByteArray \in DataFiles, displayProjection \in RegisteredProjections :
           pg = PgCalled(gpkgByteArray, displayProjection)

PgCatalog ==
    /\ pg.pc = "catalog"
    /\ pg' = PgCatalogStep(pg)
    /\ UNCHANGED <<orchVars, geomVars, pairVars>>

PgStyles ==
    /\ pg.pc = "styles"
    /\ pg' = PgStylesStep(pg)
    /\ UNCHANGED <<orchVars, geomVars, pairVars>>

PgTable ==
    /\ pg.pc = "table"
    /\ pg' = PgTableStep(pg)
    /\ UNCHANGED <<orchVars, geomVars, pairVars>>

PgRow ==
    /\ pg.pc = "rows"
    /\ pg' = PgRowStep(pg)
    /\ UNCHANGED <<orchVars, geomVars, pairVars>>

NextData == PgCatalog \/ PgStyles \/ PgTable \/ PgRow

SpecData == DataInit /\ [][NextData]_vars

\* the statement-by-statement run ends as the operator processGpkgData says
PgAgreesWithOperator ==
    pg.pc = "done" =>
        LET whole == processGpkgData(pg.gpkgByteArray, pg.displayProjection)
        IN  /\ pg.threw = whole.threw
            /\ pg.error = whole.error
            /\ pg.result = whole.result

----------------------------------------------------------------------------
(* SpecDist: the build in dist/.  The module calls initSqlJs() when it is   *)
(* loaded; its default export starts the request, then checks the display   *)
(* projection, then joins with Promise.all.  A load record is as in Spec,   *)
(* with one more field, firstRejected; extracted, error and result are set  *)
(* by the .then callback, future when the returned promise settles.         *)

\* the file paths handed to the default export
DistPaths == {"roads.gpkg", "missing.gpkg"}

\* this.status at readyState 4: an HTTP status, or 0 when there was no response
DistStatuses == HttpStatuses \cup {0}

\* this.response at readyState 4: the bytes of a file, or 0 for null
DistResponses == OrchFiles \cup {0}

\* new Error('Requested GPKG file could not be loaded: ' + gpkgFile)
DistRequestFailed(gpkgFile) == MkError("Error", "RequestFailed", 0, gpkgFile, "")

\* the value initSqlJs() rejected with, passed on as it is
DistRejection(reason) == MkError("Error", "External", 0, reason, "")

\* loadGpkg(gpkgFile) of the dist build: the promise, with the request sent
DistLoadGpkg(gpkgFile) == ReadPromise("fetching", 0, NoError, 0, 1, 0)

\* onreadystatechange at readyState 4
DistAfterRequest(read, status, response, gpkgFile) ==
    IF status = 200 /\ response # 0
    THEN [read EXCEPT !.state = "fulfilled", !.bytes = response, !.status = status]
    ELSE [read EXCEPT !.state = "rejected", !.error = DistRequestFailed(gpkgFile),
                      !.status = status]

\* which of the two promises held by Promise.all rejected first ("" while
\* neither has): its reaction is the first in the queue, so it is the
\* rejection Promise.all takes
FirstRejection(current, wasm, read) ==
    IF current # "" THEN current
    ELSE IF wasm.state = "rejected" THEN "wasm"
    ELSE IF read.state = "rejected" THEN "read"
    ELSE ""

\* const promiseSqlWasmLoaded = initSqlJs() at module load
DistInit ==
    /\ promiseSqlWasmLoaded = 1
    /\ sqlWasmPromises = <<PendingWasm>>
    /\ consoleErrors = {}
    /\ loads = <<>>
    /\ thrown = NotThrown
    /\ gpkgBinGeom = <<>>
    /\ geomResult = NotParsed
    /\ pg = PgIdle
    /\ geomOther = NoOtherCell

\* a call of the default export
DistDefault(gpkgFile, displayProjection) ==
    LET gpkgPromise == DistLoadGpkg(gpkgFile)
    IN  IF ~ol_proj_get(displayProjection)
        THEN /\ thrown' = [called |-> TRUE,
                           displayProjection |-> displayProjection,
                           initialised |-> TRUE,
                           error |-> UnknownDisplayProjection(displayProjection),
                           fetched |-> gpkgPromise.fetched]
             /\ UNCHANGED <<promiseSqlWasmLoaded, sqlWasmPromises, consoleErrors,
                            loads, geomVars, dataVars, pairVars>>
        ELSE /\ Len(loads) < MaxLoads
             /\ loads' = Append(loads,
                    [gpkgFile |-> gpkgFile,
                     displayProjection |-> displayProjection,
                     awaited |-> promiseSqlWasmLoaded,
                     read |-> gpkgPromise,
                     firstRejected |-> FirstRejection("",
                                   sqlWasmPromises[promiseSqlWasmLoaded], gpkgPromise),
                     future |-> "pending", error |-> NoError,
                     result |-> NoResult, extracted |-> FALSE])
             /\ UNCHANGED <<promiseSqlWasmLoaded, sqlWasmPromises, consoleErrors,
                            thrown, geomVars, dataVars, pairVars>>

\* the environment fulfils the initSqlJs() promise
DistSqlWasmLoaded == SqlWasmLoaded(promiseSqlWasmLoaded)

\* the environment rejects the initSqlJs() promise: the reactions attached to
\* it are queued, the .catch handler of the module first
DistSqlWasmFailed(reason) ==
    LET wasm == [state |-> "rejected", reason |-> reason]
    IN  /\ sqlWasmPromises[promiseSqlWasmLoaded].state = "pending"
        /\ sqlWasmPromises' = [sqlWasmPromises EXCEPT ![promiseSqlWasmLoaded] = wasm]
        /\ loads' = [i \in 1..Len(loads) |->
                        [loads[i] EXCEPT
                            !.firstRejected = FirstRejection(@, wasm, loads[i].read)]]
        /\ UNCHANGED <<promiseSqlWasmLoaded, consoleErrors, thrown,
                       geomVars, dataVars, pairVars>>

\* the .catch handler attached at module load runs: console.error, and a
\* rethrow into a promise nobody holds
DistSqlWasmCatch == SqlWasmCatch(promiseSqlWasmLoaded)

\* the request of the i-th call reaches readyState 4
DistRequestDone(i, status, response) ==
    LET read == DistAfterRequest(loads[i].read, status, response, loads[i].gpkgFile)
    IN  /\ loads[i].read.state = "fetching"
        /\ loads' = [loads EXCEPT
                        ![i].read = read,
                        ![i].firstRejected =
                            FirstRejection(@, sqlWasmPromises[loads[i].awaited], read)]
        /\ UNCHANGED <<promiseSqlWasmLoaded, sqlWasmPromises, consoleErrors, thrown,
                       geomVars, dataVars, pairVars>>

\* the .then callback chained on Promise.all runs, both promises having
\* fulfilled: processGpkgData returns or throws; the returned promise is
\* still pending
DistThen(i) ==
    LET processed == processGpkgData(loads[i].read.bytes, loads[i].displayProjection)
    IN  /\ loads[i].future = "pending"
        /\ ~loads[i].extracted
        /\ sqlWasmPromises[loads[i].awaited].state = "fulfilled"
        /\ loads[i].read.state = "fulfilled"
        /\ loads' = [loads EXCEPT ![i] =
               IF processed.threw
               THEN [@ EXCEPT !.extracted = TRUE, !.error = processed.error]
               ELSE [@ EXCEPT !.extracted = TRUE, !.result = processed.result]]
        /\ UNCHANGED <<promiseSqlWasmLoaded, sqlWasmPromises, consoleErrors, thrown,
                       geomVars, dataVars, pairVars>>

\* the outcome the returned promise takes: what .then produced, or the
\* rejection of Promise.all, which .catch rethrows as it is
DistOutcome(load) ==
    IF load.extracted
    THEN [load EXCEPT !.future = IF load.error # NoError THEN "rejected"
                                 ELSE "fulfilled"]
    ELSE [load EXCEPT !.future = "rejected",
                      !.error = IF load.firstRejected = "wasm"
                                THEN DistRejection(sqlWasmPromises[load.awaited].reason)
                                ELSE load.read.error]

\* DistSettles of a build that joins with Promise.allSettled
DistSettles_WaitsForBoth(i) ==
    /\ loads[i].future = "pending"
    /\ Settled(sqlWasmPromises[loads[i].awaited]) /\ Settled(loads[i].read)
    /\ \/ loads[i].extracted
       \/ loads[i].firstRejected = "wasm" /\ CatchHasRun(loads[i].awaited)
       \/ loads[i].firstRejected = "read"
    /\ loads' = [loads EXCEPT ![i] = DistOutcome(@)]
    /\ UNCHANGED <<promiseSqlWasmLoaded, sqlWasmPromises, consoleErrors, thrown,
                   geomVars, dataVars, pairVars>>

\* the .catch callback chained on .then has had its turn and the returned
\* promise settles.  A rejection by the engine promise gets here after the
\* module's own .catch handler, which was attached first
DistSettles(i) ==
    /\ loads[i].future = "pending"
    /\ \/ loads[i].extracted
       \/ loads[i].firstRejected = "wasm" /\ CatchHasRun(loads[i].awaited)
       \/ loads[i].firstRejected = "read"
    /\ loads' = [loads EXCEPT ![i] = DistOutcome(@)]
    /\ UNCHANGED <<promiseSqlWasmLoaded, sqlWasmPromises, consoleErrors, thrown,
                   geomVars, dataVars, pairVars>>

DistThenRuns(i) == i \in 1..Len(loads) /\ DistThen(i)

DistSettlesRuns(i) == i \in 1..Len(loads) /\ DistSettles(i)

NextDist ==
    \/ \E gpkgFile \in DistPaths, displayProjection \in DisplayProjections :
           DistDefault(gpkgFile, displayProjection)
    \/ DistSqlWasmLoaded
    \/ \E reason \in WasmRejections : DistSqlWasmFailed(reason)
    \/ DistSqlWasmCatch
    \/ \E i \in 1..Len(loads), status \in DistStatuses, response \in DistResponses :
           DistRequestDone(i, status, response)
    \/ \E i \in 1..Len(loads) : DistThen(i)
    \/ \E i \in 1..Len(loads) : DistSettles(i)

\* the runtime runs the callbacks of a settled promise; nothing is assumed of
\* the engine load or of the request
DistFairness ==
    /\ WF_vars(DistSqlWasmCatch)
    /\ \A i \in 1..MaxLoads : WF_vars(DistThenRuns(i))
    /\ \A i \in 1..MaxLoads : WF_vars(DistSettlesRuns(i))

SpecDist == DistInit /\ [][NextDist]_vars /\ DistFairness

----------------------------------------------------------------------------
(* Properties of loadGpkg *)

\* the initSqlJs() promise the i-th load awaits
AwaitedWasm(i) == sqlWasmPromises[loads[i].awaited]

\* the i-th load was given a URL string or a URL object
UrlLike(i) == loads[i].gpkgFile \in {"string", "URL"}

\* the fetch of the i-th load completed with a non-success response
NonSuccessResponse(i) ==
    UrlLike(i) /\ loads[i].read.status # 0 /\ ~ResponseOk(loads[i].read.status)

\* the fetch of the i-th load was issued and rejected without a response
TransportFailure(i) ==
    /\ UrlLike(i)
    /\ loads[i].read.fetched = 1
    /\ loads[i].read.status = 0
    /\ loads[i].read.state = "rejected"

\* C1: a loadGpkg call made while promiseSqlWasmLoaded is undefined throws
\* WasmNotInitialized, returns no promise and issues no fetch, whatever its
\* arguments.
C1_UninitialisedCallThrows ==
    /\ (thrown.called /\ ~thrown.initialised) =>
           (thrown.error = WasmNotInitialized /\ thrown.fetched = 0)
    /\ \A i \in 1..Len(loads) : loads[i].awaited # 0
    /\ (promiseSqlWasmLoaded = 0) => (loads = <<>>)

C1_Witness ==
    /\ thrown.called
    /\ ~thrown.initialised
    /\ thrown.displayProjection = "EPSG:3857"
    /\ thrown.error = WasmNotInitialized

\* C2 as stated: every loadGpkg call with an unregistered display projection
\* throws UnknownDisplayProjection, issues no fetch and returns no promise.
C2_Original ==
    /\ (thrown.called /\ ~ol_proj_get(thrown.displayProjection)) =>
           (thrown.error = UnknownDisplayProjection(thrown.displayProjection)
            /\ thrown.fetched = 0)
    /\ \A i \in 1..Len(loads) : ol_proj_get(loads[i].displayProjection)

\* C2 (amended): a loadGpkg call made after initSqlJsWasm with an unregistered
\* display projection throws UnknownDisplayProjection naming that projection,
\* issues no fetch and returns no promise; made before initSqlJsWasm it
\* throws too and issues no fetch, but the error is WasmNotInitialized.
C2_UnregisteredThrowsOnceInitialised ==
    /\ (thrown.called /\ thrown.initialised) =>
           (/\ ~ol_proj_get(thrown.displayProjection)
            /\ thrown.error = UnknownDisplayProjection(thrown.displayProjection))
    /\ thrown.called => thrown.fetched = 0
    /\ \A i \in 1..Len(loads) : ol_proj_get(loads[i].displayProjection)

C2_Witness ==
    /\ thrown.called
    /\ thrown.initialised
    /\ thrown.displayProjection = "EPSG:27700"
    /\ thrown.error.kind = "UnknownDisplayProjection"
    /\ thrown.fetched = 0

\* C3: the promise of a load stays pending until both the awaited initSqlJs()
\* promise and the readRawGpkg() promise have settled, also when one of them
\* has already rejected.
C3_WaitForAll ==
    \A i \in 1..Len(loads) :
        (~Settled(AwaitedWasm(i)) \/ ~Settled(loads[i].read)) =>
            loads[i].future = "pending"

C3_Witness ==
    \E i \in 1..Len(loads) :
        /\ loads[i].read.state = "rejected"
        /\ AwaitedWasm(i).state = "pending"
        /\ loads[i].future = "pending"

\* C4: once both have settled, a rejected engine load makes the load reject
\* with WasmLoadFailed wrapping the engine's reason whatever the read did; a
\* fulfilled engine load with a rejected read makes it reject with the
\* read's own error.
C4_FailurePriority ==
    \A i \in 1..Len(loads) :
        loads[i].future # "pending" =>
            /\ AwaitedWasm(i).state = "rejected" =>
                   /\ loads[i].future = "rejected"
                   /\ loads[i].error = WasmLoadFailed(AwaitedWasm(i).reason)
            /\ (AwaitedWasm(i).state = "fulfilled" /\ loads[i].read.state = "rejected") =>
                   /\ loads[i].future = "rejected"
                   /\ loads[i].error = loads[i].read.error

C4_Witness ==
    \E i \in 1..Len(loads) :
        /\ AwaitedWasm(i).state = "rejected"
        /\ loads[i].read.state = "rejected"
        /\ loads[i].future = "rejected"
        /\ loads[i].error.kind = "WasmLoadFailed"
        /\ loads[i].error.about = AwaitedWasm(i).reason

\* C5: processGpkgData runs for a load only when the initSqlJs() promise it
\* awaits and its own readRawGpkg() promise are both fulfilled.
C5_ExtractionNeedsBoth ==
    \A i \in 1..Len(loads) :
        loads[i].extracted =>
            /\ AwaitedWasm(i).state = "fulfilled"
            /\ loads[i].read.state = "fulfilled"

C5_Witness ==
    \E i \in 1..Len(loads) :
        /\ loads[i].extracted
        /\ loads[i].future = "fulfilled"
        /\ loads[i].read.bytes = 2

\* C6 as stated: after a non-success response the load's promise rejects with
\* SourceUnreachable carrying the status; no body read, no extraction.
C6_Original ==
    \A i \in 1..Len(loads) :
        NonSuccessResponse(i) =>
            /\ loads[i].read.bodyReads = 0
            /\ ~loads[i].extracted
            /\ loads[i].future # "fulfilled"
            /\ loads[i].future = "rejected" =>
                   loads[i].error = SourceUnreachable(loads[i].read.status)

\* C6 (amended): after a non-success response readRawGpkg rejects with
\* SourceUnreachable carrying the response's status, with no body read and
\* no extraction; the load's promise rejects, with that same error when the
\* awaited engine load succeeded and with WasmLoadFailed when it failed.
C6_NonSuccessResponse ==
    \A i \in 1..Len(loads) :
        NonSuccessResponse(i) =>
            /\ loads[i].read.state = "rejected"
            /\ loads[i].read.error = SourceUnreachable(loads[i].read.status)
            /\ loads[i].read.bodyReads = 0
            /\ ~loads[i].extracted
            /\ loads[i].future # "fulfilled"
            /\ loads[i].future = "rejected" =>
                   IF AwaitedWasm(i).state = "fulfilled"
                   THEN loads[i].error = SourceUnreachable(loads[i].read.status)
                   ELSE loads[i].error = WasmLoadFailed(AwaitedWasm(i).reason)

C6_Witness ==
    \E i \in 1..Len(loads) :
        /\ loads[i].gpkgFile = "string"
        /\ loads[i].read.status = 404
        /\ loads[i].future = "rejected"
        /\ loads[i].error.kind = "SourceUnreachable"
        /\ loads[i].error.status = 404

\* C7: a transport failure of the fetch fails the load with the same
\* SourceUnreachable kind as a non-success response, a kind (and class) that
\* InvalidInputKind does not share.
C7_TransportFailureIsSourceUnreachable ==
    \A i \in 1..Len(loads) :
        TransportFailure(i) =>
            /\ loads[i].read.error.kind = "SourceUnreachable"
            /\ loads[i].read.error.cls # InvalidInputKind.cls

\* C8 as stated: a source of no accepted shape fails the load with
\* InvalidInputKind and no fetch; the accepted shapes never give that error.
C8_Original ==
    \A i \in 1..Len(loads) :
        IF loads[i].gpkgFile \notin {"string", "URL", "Blob"}
        THEN /\ loads[i].read.fetched = 0
             /\ loads[i].future # "fulfilled"
             /\ loads[i].future = "rejected" => loads[i].error = InvalidInputKind
        ELSE /\ loads[i].read.error # InvalidInputKind
             /\ loads[i].error # InvalidInputKind

\* C8 (amended): for a source of no accepted shape readRawGpkg rejects with
\* InvalidInputKind at once, with no fetch and no body read, and the load's
\* promise rejects, with InvalidInputKind when the awaited engine load
\* succeeded and with WasmLoadFailed when it failed; the accepted shapes
\* never give InvalidInputKind.
C8_InvalidInputKind ==
    \A i \in 1..Len(loads) :
        IF loads[i].gpkgFile \notin {"string", "URL", "Blob"}
        THEN /\ loads[i].read.state = "rejected"
             /\ loads[i].read.error = InvalidInputKind
             /\ loads[i].read.fetched = 0
             /\ loads[i].read.bodyReads = 0
             /\ ~loads[i].extracted
             /\ loads[i].future # "fulfilled"
             /\ loads[i].future = "rejected" =>
                    IF AwaitedWasm(i).state = "fulfilled"
                    THEN loads[i].error = InvalidInputKind
                    ELSE loads[i].error = WasmLoadFailed(AwaitedWasm(i).reason)
        ELSE /\ loads[i].read.error # InvalidInputKind
             /\ loads[i].error # InvalidInputKind

C8_Witness ==
    \E i \in 1..Len(loads) :
        /\ loads[i].gpkgFile = "other"
        /\ loads[i].future = "rejected"
        /\ loads[i].error = InvalidInputKind
        /\ loads[i].read.fetched = 0

\* the state of the module, read off the engine-ready signal
EngineState ==
    IF promiseSqlWasmLoaded = 0 THEN "Uninitialized"
    ELSE IF sqlWasmPromises[promiseSqlWasmLoaded].state = "pending" THEN "WasmLoading"
    ELSE IF sqlWasmPromises[promiseSqlWasmLoaded].state = "fulfilled" THEN "Ready"
    ELSE "Failed"

\* how far a state of the module is along Uninitialized -> WasmLoading -> Ready
Rank(state) ==
    IF state = "Uninitialized" THEN 0 ELSE IF state = "WasmLoading" THEN 1 ELSE 2

\* a step of loadGpkg: a call (throwing or not), a step of its read, its join
LoadStep == loads' # loads \/ thrown' # thrown

\* C16: no step of a loadGpkg call (a synchronous throw, the start of a load,
\* the progress of its read, its rejection or its resolution) changes the
\* engine-ready signal or the promise behind it, and the signal is always the
\* one the last initSqlJsWasm call set.
C16_LoadsLeaveSignalAlone ==
    /\ [](promiseSqlWasmLoaded = Len(sqlWasmPromises))
    /\ [][LoadStep =>
              /\ promiseSqlWasmLoaded' = promiseSqlWasmLoaded
              /\ sqlWasmPromises' = sqlWasmPromises
              /\ EngineState' = EngineState]_vars

\* a call threw before initialisation, and the load made afterwards resolved
C16_Witness ==
    /\ thrown.called
    /\ thrown.error = WasmNotInitialized
    /\ Len(loads) = 1
    /\ loads[1].future = "fulfilled"
    /\ EngineState = "Ready"

\* C17 as stated: the state never moves backwards and the signal, once
\* written, is never written again.
C17_Original ==
    [][/\ promiseSqlWasmLoaded # 0 => promiseSqlWasmLoaded' = promiseSqlWasmLoaded
       /\ Rank(EngineState') >= Rank(EngineState)]_vars

\* C17 (amended): the signal is never cleared and is written by initSqlJsWasm
\* only, but by every call of it: a call replaces the signal with the promise
\* of a new engine load and takes the module back to WasmLoading.  Between two
\* calls of initSqlJsWasm the signal is not written and the state only moves
\* forward.
C17_ForwardBetweenInits ==
    [][/\ promiseSqlWasmLoaded # 0 => promiseSqlWasmLoaded' # 0
       /\ Len(sqlWasmPromises') = Len(sqlWasmPromises) =>
              /\ promiseSqlWasmLoaded' = promiseSqlWasmLoaded
              /\ Rank(EngineState') >= Rank(EngineState)
       /\ Len(sqlWasmPromises') # Len(sqlWasmPromises) =>
              /\ Len(sqlWasmPromises') = Len(sqlWasmPromises) + 1
              /\ promiseSqlWasmLoaded' = Len(sqlWasmPromises')
              /\ promiseSqlWasmLoaded' # promiseSqlWasmLoaded
              /\ EngineState' = "WasmLoading"]_vars

\* initSqlJsWasm was called again when the module was Ready
C17_Witness ==
    /\ Len(sqlWasmPromises) = 2
    /\ sqlWasmPromises[1].state = "fulfilled"
    /\ promiseSqlWasmLoaded = 2
    /\ EngineState = "WasmLoading"

\* C18: a failed engine load is reported with console.error and nothing
\* else, and only failed loads are reported: the signal stays set, so a loadGpkg call with a registered display
\* projection passes the synchronous checks and never throws
\* WasmNotInitialized; every load that awaited the failed promise is not
\* extracted and rejects with WasmLoadFailed wrapping the reason, after the
\* report.
C18_FailureSurfacesInLoads ==
    /\ consoleErrors \subseteq {g \in 1..Len(sqlWasmPromises) :
                                   sqlWasmPromises[g].state = "rejected"}
    /\ (sqlWasmPromises # <<>> /\ sqlWasmPromises[Len(sqlWasmPromises)].state = "rejected") =>
           \A displayProjection \in DisplayProjections :
               ol_proj_get(displayProjection) =>
                   SyncChecks(promiseSqlWasmLoaded, displayProjection) = NoError
    /\ (thrown.called /\ thrown.error = WasmNotInitialized) => ~thrown.initialised
    /\ \A i \in 1..Len(loads) :
           AwaitedWasm(i).state = "rejected" =>
               /\ ~loads[i].extracted
               /\ loads[i].future # "fulfilled"
               /\ loads[i].future = "rejected" =>
                      /\ loads[i].error = WasmLoadFailed(AwaitedWasm(i).reason)
                      /\ loads[i].awaited \in consoleErrors

\* a load started after the engine load had failed, and was rejected
C18_Witness ==
    /\ EngineState = "Failed"
    /\ promiseSqlWasmLoaded \in consoleErrors
    /\ Len(loads) = 1
    /\ loads[1].awaited = promiseSqlWasmLoaded
    /\ loads[1].read.state = "fulfilled"
    /\ loads[1].future = "rejected"
    /\ loads[1].error.kind = "WasmLoadFailed"

\* C19: a loadGpkg call that throws makes no request; a load makes exactly
\* one request for a string or URL source and none for a Blob (or any other
\* value), whatever becomes of the request.
C19_OneRequestPerLoad ==
    /\ thrown.fetched = 0
    /\ \A i \in 1..Len(loads) :
           loads[i].read.fetched = IF UrlLike(i) THEN 1 ELSE 0

\* a fetch failed and the load was rejected, after one request
C19_Witness ==
    \E i \in 1..Len(loads) :
        /\ UrlLike(i)
        /\ loads[i].read.state = "rejected"
        /\ loads[i].read.error.kind = "External"
        /\ loads[i].read.fetched = 1
        /\ loads[i].future = "rejected"

----------------------------------------------------------------------------
(* Properties of processGpkgData *)

\* the file processGpkgData was called on
PgFile == GpkgFiles[pg.gpkgByteArray]

PgReturned == pg.pc = "done" /\ ~pg.threw

\* processGpkgData threw at the layer_styles probe or the style query
PgThrewAtStyles == pg.pc = "done" /\ pg.threw /\ pg.k = 0 /\ pg.error.kind = "External"

\* the rows of layer_styles, as a set of (name, style) pairs
StyleRows(file) == {file.styles[n] : n \in 1..Len(file.styles)}

\* a mapping, as a set of (key, value) pairs
Pairs(mapping) == {<<key, mapping[key]>> : key \in DOMAIN mapping}

\* the last row of layer_styles with the given name
LastStyle(file, name) ==
    LET last == CHOOSE n \in 1..Len(file.styles) :
                    /\ file.styles[n][1] = name
                    /\ \A m \in (n + 1)..Len(file.styles) : file.styles[m][1] # name
    IN  file.styles[last][2]

\* C11 as stated: the style mapping equals the rows of layer_styles when that
\* table exists and is empty when it does not; the absence of the table never
\* fails the load.
C11_Original ==
    /\ PgReturned =>
           IF PgFile.stylesReadable
           THEN Pairs(pg.result.slds) = StyleRows(PgFile)
           ELSE pg.result.slds = EmptyObject
    /\ ~PgFile.stylesReadable => ~PgThrewAtStyles

\* C11 (amended): when gpkg_contents lists a table named layer_styles, the
\* style mapping of a load result maps every f_table_name of its rows to the
\* styleSLD of the last row with that name (it equals the rows when no name
\* repeats); when gpkg_contents lists no such table the mapping is empty,
\* whether or not a table of that name exists, and the load does not fail at
\* the probe.
C11_StyleMapping ==
    /\ PgReturned =>
           IF PgFile.stylesListed
           THEN /\ DOMAIN pg.result.slds = {row[1] : row \in StyleRows(PgFile)}
                /\ \A name \in DOMAIN pg.result.slds :
                       pg.result.slds[name] = LastStyle(PgFile, name)
           ELSE pg.result.slds = EmptyObject
    /\ ~PgFile.stylesListed => ~PgThrewAtStyles

C11_Witness ==
    /\ PgReturned
    /\ PgFile = TwoStylesForOneLayer
    /\ DOMAIN pg.result.slds = {"roads", "paths"}
    /\ pg.result.slds["roads"] = "<sld night/>"

\* C12: after a successful load the keys of the feature-collection mapping
\* are exactly the table names of the catalog's descriptors, each collection
\* is tagged with origProjection "EPSG:<srs_id>" of its own table, and no
\* feature has the table's geometry column among its attributes.
C12_CollectionsPerTable ==
    PgReturned =>
        /\ DOMAIN pg.result.data =
               {pg.featureTableNames[t].table_name : t \in 1..Len(pg.featureTableNames)}
        /\ \A t \in 1..Len(PgFile.features) :
               LET collection == pg.result.data[PgFile.features[t].table_name]
               IN  /\ collection.origProjection
                          = "EPSG:" \o ToString(PgFile.features[t].srs_id)
                   /\ \A f \in 1..Len(collection.features) :
                          PgFile.features[t].column_name
                              \notin DOMAIN collection.features[f].properties

C12_Witness ==
    /\ PgReturned
    /\ PgFile = TwoTables
    /\ DOMAIN pg.result.data = {"roads", "paths"}
    /\ pg.result.data["roads"].origProjection = "EPSG:4326"
    /\ pg.result.data["paths"].origProjection = "EPSG:3857"
    /\ DOMAIN pg.result.data["paths"].features[1].properties = {"fid", "geom"}

\* C13: a table whose projection "EPSG:<srs_id>" is not registered has none
\* of its rows read and no SELECT prepared for it, also when it has no rows;
\* when the loop reaches it, processGpkgData throws UnknownSourceProjection
\* naming the table and the projection, and goes no further.
C13_ProjectionCheckedFirst ==
    \A t \in 1..Len(pg.featureTableNames) :
        LET table == pg.featureTableNames[t]
            projection == "EPSG:" \o table.srs_id
        IN  ~ol_proj_get(projection) =>
                /\ pg.stepped[t] = 0
                /\ \A n \in 1..Len(pg.selected) : pg.selected[n] # table.table_name
                /\ table.table_name \notin DOMAIN pg.dataFromGpkg
                /\ pg.k <= t
                /\ (pg.k = t /\ pg.pc # "table") =>
                       /\ pg.pc = "done"
                       /\ pg.threw
                       /\ pg.error = UnknownSourceProjection(projection, table.table_name)

C13_Witness ==
    /\ PgFile = UnknownProjectionNoRows
    /\ pg.pc = "done"
    /\ pg.threw
    /\ pg.error.kind = "UnknownSourceProjection"
    /\ pg.error.table = "buildings"
    /\ pg.error.about = "EPSG:27700"
    /\ pg.stepped = <<2, 0>>

\* C14: when opening the database or the catalog query fails, processGpkgData
\* throws CatalogExtractionFailed wrapping the engine's error, and neither
\* the style query nor any table extraction has been attempted.
C14_CatalogFailure ==
    (~PgFile.opens /\ pg.pc # "catalog") =>
        /\ pg.pc = "done"
        /\ pg.threw
        /\ pg.error = CatalogExtractionFailed(PgFile.engineError)
        /\ pg.error.about # ""
        /\ pg.selected = <<>>
        /\ pg.stepped = <<>>
        /\ pg.k = 0
        /\ pg.sldsFromGpkg = EmptyObject
        /\ pg.result = NoResult

C14_Witness ==
    /\ PgFile = NoCatalog
    /\ pg.pc = "done"
    /\ pg.error.kind = "CatalogExtractionFailed"
    /\ pg.error.about = "no such table: gpkg_contents"

\* the j-th row of the k-th table makes the parser or the decoder throw
BadRow(file, k, j) ==
    LET cell == file.features[k].rows[j][file.features[k].column_name]
        field == (cell[4] \div 2) % 8
        offset == <<8, 40, 56, 56, 72>>[field + 1]
    IN  \/ field \in 5..7
        \/ field \in 0..4 /\ Len(cell) - offset < MinWkbLen

\* the promise of a load whose engine and bytes are there, settled by OnSettled
PgSettled ==
    OnSettled([state |-> "fulfilled", reason |-> ""],
              ReadPromise("fulfilled", pg.gpkgByteArray, NoError, 200, 1, 1),
              pg.displayProjection)

\* C15: no partial result.  When a row makes the parser or the decoder throw,
\* or a table's projection is unknown, the load rejects with the error thrown,
\* unmodified, and returns nothing, whatever was extracted before; it
\* resolves only with every row of every table turned into a feature.
C15_NoPartialResult ==
    pg.pc = "done" =>
        /\ pg.threw =>
               /\ pg.result = NoResult
               /\ PgSettled.future = "rejected"
               /\ PgSettled.error = pg.error
               /\ PgSettled.result = NoResult
        /\ (pg.threw /\ pg.k > 0 /\ pg.j > 0) =>
               pg.error = IF parseGpkgGeom(PgFile.features[pg.k].rows[pg.j]
                                  [PgFile.features[pg.k].column_name]).threw
                          THEN InvalidEnvelopeFlag
                          ELSE DecoderError
        /\ ~pg.threw =>
               /\ PgSettled.future = "fulfilled"
               /\ PgSettled.result = pg.result
               /\ \A t \in 1..Len(PgFile.features) :
                      /\ ol_proj_get("EPSG:" \o ToString(PgFile.features[t].srs_id))
                      /\ PgFile.features[t].table_name \in DOMAIN pg.result.data
                      /\ Len(pg.result.data[PgFile.features[t].table_name].features)
                             = Len(PgFile.features[t].rows)
                      /\ \A r \in 1..Len(PgFile.features[t].rows) :
                             ~BadRow(PgFile, t, r)

C15_Witness ==
    /\ PgFile = TruncatedCell
    /\ pg.pc = "done"
    /\ pg.threw
    /\ pg.error = DecoderError
    /\ "roads" \in DOMAIN pg.dataFromGpkg
    /\ Len(pg.features) = 1
    /\ PgSettled.future = "rejected"
    /\ PgSettled.result = NoResult

----------------------------------------------------------------------------
(* Properties of parseGpkgGeom *)

\* the 3-bit field of the cell's flags byte, read off the byte itself
FlagField == (gpkgBinGeom[4] \div 2) % 8

\* the payload offsets of the valid flag values 0..4
OffsetTable == <<8, 40, 56, 56, 72>>

Min(a, b) == IF a < b THEN a ELSE b

Max(a, b) == IF a > b THEN a ELSE b

\* C9: for every flags byte 0..255, a field value e in 0..4 gives the payload
\* offset 8, 40, 56, 56, 72 and a field value in 5..7 makes parseGpkgGeom throw
\* InvalidEnvelopeFlag.
C9_OffsetTable ==
    (geomResult.called /\ Len(gpkgBinGeom) >= 4) =>
        IF FlagField \in 0..4
        THEN ~geomResult.threw /\ geomResult.wkbOffset = OffsetTable[FlagField + 1]
        ELSE geomResult.threw /\ geomResult.error = InvalidEnvelopeFlag

C9_Witness ==
    /\ geomResult.called
    /\ Len(gpkgBinGeom) >= 4
    /\ gpkgBinGeom[4] = 247
    /\ FlagField = 3
    /\ geomResult.wkbOffset = 56

\* C10 as stated: for a cell of any length L and a valid flag e the payload
\* slice starts at offset(e) and has length L - offset(e).
C10_Original ==
    (geomResult.called /\ Len(gpkgBinGeom) >= 4 /\ FlagField \in 0..4) =>
        /\ geomResult.begin = OffsetTable[FlagField + 1]
        /\ Len(geomResult.wkb) = Len(gpkgBinGeom) - OffsetTable[FlagField + 1]

\* C10 (amended): for a cell of length L and a valid flag e the payload slice
\* starts at min(offset(e), L), extends to the end of the cell and has length
\* max(L - offset(e), 0): a cell shorter than its offset gives the empty slice.
C10_SliceToEnd ==
    (geomResult.called /\ Len(gpkgBinGeom) >= 4 /\ FlagField \in 0..4) =>
        LET L == Len(gpkgBinGeom)
            offset == OffsetTable[FlagField + 1]
        IN  /\ ~geomResult.threw
            /\ geomResult.begin = Min(offset, L)
            /\ Len(geomResult.wkb) = Max(L - offset, 0)
            /\ \A k \in 1..Len(geomResult.wkb) :
                   geomResult.wkb[k] = gpkgBinGeom[geomResult.begin + k]

C10_Witness ==
    /\ geomResult.called
    /\ Len(gpkgBinGeom) = 75
    /\ FlagField = 4
    /\ geomResult.begin = 72
    /\ Len(geomResult.wkb) = 3

\* bits 1-3 of the byte at offset 3
Bits1To3(cell) == (cell[4] \div 2) % 8

\* C20: two cells that agree in bits 1-3 of the byte at offset 3 are parsed
\* alike, whatever else they hold: when the first has been parsed and the
\* row loop has gone on to the second, the second does not throw either and
\* gets the same payload offset; and two cells that are byte for byte the
\* same get the same slice.
C20_OffsetDependsOnFlagField ==
    (/\ geomResult.called
     /\ geomOther.result.called
     /\ Len(gpkgBinGeom) >= 4
     /\ Bits1To3(gpkgBinGeom) = Bits1To3(geomOther.cell)) =>
        /\ geomResult.threw = geomOther.result.threw
        /\ geomResult.error = geomOther.result.error
        /\ geomResult.wkbOffset = geomOther.result.wkbOffset
        /\ gpkgBinGeom = geomOther.cell => geomResult.wkb = geomOther.result.wkb

\* two parsed cells with the same bits 1-3 that differ in every other flag
\* bit, in length and in contents
C20_Witness ==
    /\ geomResult.called
    /\ geomOther.result.called
    /\ Len(gpkgBinGeom) = 4
    /\ gpkgBinGeom[4] = 2 * 4
    /\ geomOther.cell[4] = 2 * 4 + 241
    /\ gpkgBinGeom[1] # geomOther.cell[1] \/ gpkgBinGeom[2] # geomOther.cell[2]
    /\ geomResult.wkbOffset = 72
    /\ geomOther.result.wkbOffset = 72

----------------------------------------------------------------------------
(* Properties of the extracted features *)

\* the bytes of a cell from its payload offset on
Payload(cell) ==
    LET offset == OffsetTable[Bits1To3(cell) + 1]
    IN  [n \in 1..(Len(cell) - offset) |-> cell[offset + n]]

\* C21: in a load result every table's collection has one feature per row of
\* the table; the feature's attributes are the row's columns without the
\* geometry column, with the row's values, and its geometry is decoded from
\* the cell's bytes after the envelope, from the table's projection
\* "EPSG:<srs_id>" to the display projection asked for.
C21_OneFeaturePerRow ==
    PgReturned =>
        \A t \in 1..Len(PgFile.features) :
            LET table == PgFile.features[t]
                collection == pg.result.data[table.table_name]
            IN  /\ Len(collection.features) = Len(table.rows)
                /\ \A r \in 1..Len(table.rows) :
                       LET row == table.rows[r]
                           feature == collection.features[r]
                       IN  /\ DOMAIN feature.properties
                                  = (DOMAIN row) \ {table.column_name}
                           /\ \A c \in DOMAIN feature.properties :
                                  feature.properties[c] = row[c]
                           /\ feature.geometry
                                  = << Payload(row[table.column_name]),
                                       "EPSG:" \o ToString(table.srs_id),
                                       pg.displayProjection >>

\* two tables with different projections and geometry columns, extracted for
\* a display projection that differs from the first table's
C21_Witness ==
    /\ PgReturned
    /\ PgFile = TwoTables
    /\ pg.displayProjection = "EPSG:3857"
    /\ Len(pg.result.data["roads"].features) = 2
    /\ pg.result.data["roads"].features[2].properties = [fid |-> 2, name |-> "B2"]
    /\ pg.result.data["roads"].features[2].geometry[2] = "EPSG:4326"
    /\ Len(pg.result.data["roads"].features[2].geometry[1]) = 90 - 72
    /\ pg.result.data["paths"].features[1].properties = [fid |-> 7, geom |-> "P7"]

----------------------------------------------------------------------------
(* Properties of overlapping calls *)

\* the outcome of a load: how its promise settled, and with what
Outcome(load) == <<load.future, load.error, load.result>>

\* the outcome the i-th load has when it is the only one: decided by the
\* engine promise it awaited and by what its own read delivered
OutcomeAlone(i) ==
    LET settled == OnSettled(AwaitedWasm(i), loads[i].read,
                             loads[i].displayProjection)
    IN  <<settled.future, settled.error, settled.result>>

\* C22: overlapping loadGpkg calls do not interfere.  A step that changes one
\* call's read or promise leaves the other call's untouched; under every
\* interleaving a settled call has the outcome it has alone, decided by the
\* engine promise and by its own read; and two calls whose reads delivered
\* the same get the same outcome.
C22_OverlappingLoadsIndependent ==
    /\ [](\A i \in 1..Len(loads) :
              loads[i].future # "pending" => Outcome(loads[i]) = OutcomeAlone(i))
    /\ [](\A i \in 1..Len(loads), j \in 1..Len(loads) :
              (/\ loads[i].future # "pending"
               /\ loads[j].future # "pending"
               /\ loads[i].read = loads[j].read
               /\ loads[i].displayProjection = loads[j].displayProjection) =>
                  Outcome(loads[i]) = Outcome(loads[j]))
    /\ [][\A i \in 1..Len(loads), j \in 1..Len(loads) :
              (i # j /\ loads'[i] # loads[i]) => loads'[j] = loads[j]]_vars

\* two calls on one engine: the first resolved although the second, whose
\* bytes arrived too, was rejected
C22_Witness ==
    /\ Len(loads) = 2
    /\ loads[1].awaited = loads[2].awaited
    /\ loads[1].future = "fulfilled"
    /\ loads[2].read.state = "fulfilled"
    /\ loads[2].future = "rejected"
    /\ loads[2].error.kind = "CatalogExtractionFailed"

----------------------------------------------------------------------------
(* Further properties of loadGpkg *)

\* C23: the initialisation check comes first.  A loadGpkg call made with an
\* unregistered display projection while initSqlJsWasm was never called
\* throws WasmNotInitialized; UnknownDisplayProjection is thrown only once
\* initSqlJsWasm has been called.
C23_InitCheckFirst ==
    /\ (/\ thrown.called
        /\ ~thrown.initialised
        /\ ~ol_proj_get(thrown.displayProjection)) =>
           /\ thrown.error.kind = "WasmNotInitialized"
           /\ thrown.error # UnknownDisplayProjection(thrown.displayProjection)
    /\ (thrown.called /\ thrown.error.kind = "UnknownDisplayProjection") =>
           thrown.initialised

C23_Witness ==
    /\ thrown.called
    /\ promiseSqlWasmLoaded = 0
    /\ ~thrown.initialised
    /\ thrown.displayProjection = "EPSG:27700"
    /\ ~ol_proj_get(thrown.displayProjection)
    /\ thrown.error = WasmNotInitialized

\* C24: a load awaits the engine promise that was the signal when loadGpkg
\* was called.  A later initSqlJsWasm call does not rebind it: the load stays
\* pending until that earlier promise has settled, fails with WasmLoadFailed
\* exactly when that promise rejected, and only a load started after the
\* second call awaits the new promise.
C24_AwaitsSignalOfCallTime ==
    /\ [][Len(loads') > Len(loads) =>
              loads'[Len(loads')].awaited = promiseSqlWasmLoaded]_vars
    /\ [][\A i \in 1..Len(loads) : loads'[i].awaited = loads[i].awaited]_vars
    /\ [](\A i \in 1..Len(loads) :
              loads[i].future # "pending" =>
                  /\ Settled(AwaitedWasm(i))
                  /\ AwaitedWasm(i).state = "rejected" <=>
                         loads[i].error.kind = "WasmLoadFailed"
                  /\ loads[i].future = "fulfilled" =>
                         AwaitedWasm(i).state = "fulfilled")

\* initSqlJsWasm was called again while the load was pending; the new engine
\* is ready and the bytes are there, and the load still waits for the old one
C24_Witness ==
    /\ Len(loads) = 1
    /\ loads[1].awaited = 1
    /\ promiseSqlWasmLoaded = 2
    /\ sqlWasmPromises[1].state = "pending"
    /\ sqlWasmPromises[2].state = "fulfilled"
    /\ loads[1].read.state = "fulfilled"
    /\ loads[1].future = "pending"

\* C25: when the engine load and the read of a load come to an end, the
\* promise loadGpkg returned settles; once settled it keeps its outcome; and
\* a call that has passed the two checks throws nothing: every later failure
\* is a rejection.
C25_EveryLoadSettlesOnce ==
    /\ \A i \in 1..MaxLoads :
           (Len(loads) >= i) ~> (Len(loads) >= i /\ loads[i].future # "pending")
    /\ [][\A i \in 1..Len(loads) :
              loads[i].future # "pending" => loads'[i] = loads[i]]_vars
    /\ [][Len(loads') > Len(loads) => thrown' = thrown]_vars
    /\ [](thrown.called =>
              thrown.error.kind \in {"WasmNotInitialized", "UnknownDisplayProjection"})
    /\ [](\A i \in 1..Len(loads) :
              /\ loads[i].future = "fulfilled" =>
                     (loads[i].error = NoError /\ loads[i].result # NoResult)
              /\ loads[i].future = "rejected" =>
                     (loads[i].error # NoError /\ loads[i].result = NoResult))

\* a call with a value readRawGpkg cannot read returned a promise, which was
\* rejected; no call has thrown
C25_Witness ==
    /\ ~thrown.called
    /\ Len(loads) = 1
    /\ loads[1].gpkgFile = "other"
    /\ AwaitedWasm(1).state = "fulfilled"
    /\ loads[1].future = "rejected"
    /\ loads[1].error.cls = "TypeError"
    /\ loads[1].result = NoResult

----------------------------------------------------------------------------
(* Further properties of parseGpkgGeom *)

\* C26: parseGpkgGeom throws exactly when the cell has a flags byte whose
\* bits 1-3 are 5, 6 or 7, and what it throws is InvalidEnvelopeFlag.  A cell
\* of fewer than 4 bytes is parsed as flag 0 (offset 8), and a cell shorter
\* than its offset gives the empty slice: the parser rejects no cell for
\* being short.
C26_OnlyInvalidFlagThrows ==
    geomResult.called =>
        /\ geomResult.threw <=> (Len(gpkgBinGeom) >= 4 /\ FlagField \in 5..7)
        /\ geomResult.threw => geomResult.error = InvalidEnvelopeFlag
        /\ Len(gpkgBinGeom) < 4 =>
               (geomResult.wkbOffset = 8 /\ geomResult.wkb = <<>>)
        /\ (~geomResult.threw /\ Len(gpkgBinGeom) <= geomResult.wkbOffset) =>
               (geomResult.wkb = <<>> /\ geomResult.begin = Len(gpkgBinGeom))

\* a cell of three bytes, parsed without complaint
C26_Witness ==
    /\ geomResult.called
    /\ Len(gpkgBinGeom) = 3
    /\ ~geomResult.threw
    /\ geomResult.wkbOffset = 8
    /\ geomResult.begin = 3
    /\ geomResult.wkb = <<>>

----------------------------------------------------------------------------
(* Further properties of processGpkgData *)

\* C27: the layer_styles probe and the style query come after the catalog
\* try/catch and before the table loop.  While processGpkgData stands at
\* either, no table has been touched; when the style query fails,
\* processGpkgData throws the engine's own error, not wrapped as
\* CatalogExtractionFailed, with no SELECT prepared on any feature table, no
\* row read and nothing stored.
C27_StyleFailureIsRaw ==
    /\ pg.pc \in {"catalog", "styles"} =>
           (pg.selected = <<>> /\ pg.dataFromGpkg = EmptyObject /\ pg.k = 0)
    /\ (/\ PgFile.opens
        /\ PgFile.stylesListed
        /\ ~PgFile.stylesReadable
        /\ pg.pc \notin {"catalog", "styles"}) =>
           /\ pg.pc = "done"
           /\ pg.threw
           /\ pg.error = EngineError(PgFile.engineError)
           /\ pg.error.kind # "CatalogExtractionFailed"
           /\ pg.selected = <<>>
           /\ \A t \in 1..Len(pg.stepped) : pg.stepped[t] = 0
           /\ pg.dataFromGpkg = EmptyObject
           /\ pg.result = NoResult
           /\ PgSettled.future = "rejected"
           /\ PgSettled.error = EngineError(PgFile.engineError)

\* the catalog named a feature table, and the style query then failed
C27_Witness ==
    /\ PgFile = StylesListedMissing
    /\ Len(pg.featureTableNames) = 1
    /\ pg.pc = "done"
    /\ pg.threw
    /\ pg.error.kind = "External"
    /\ pg.error.about = "no such table: layer_styles"
    /\ pg.selected = <<>>

----------------------------------------------------------------------------
(* Properties of the build in dist/ *)

\* C28: in the dist build the request is sent before the display projection
\* is checked, and the join is Promise.all.  A call that throws for an
\* unregistered display projection has one request in flight; every call
\* sends exactly one request; and once the engine load or the request has
\* failed the returned promise is rejected, whether or not the other of the
\* two ever settles, with the rejection unwrapped.
C28_DistRequestFirstFailFast ==
    /\ [](thrown.called =>
              /\ thrown.error = UnknownDisplayProjection(thrown.displayProjection)
              /\ thrown.fetched = 1)
    /\ [](\A i \in 1..Len(loads) :
              /\ loads[i].read.fetched = 1
              /\ (loads[i].future = "rejected" /\ ~loads[i].extracted) =>
                     \/ /\ AwaitedWasm(i).state = "rejected"
                        /\ loads[i].error = DistRejection(AwaitedWasm(i).reason)
                     \/ /\ loads[i].read.state = "rejected"
                        /\ loads[i].error = loads[i].read.error)
    /\ \A i \in 1..MaxLoads :
           (/\ Len(loads) >= i
            /\ \/ AwaitedWasm(i).state = "rejected"
               \/ loads[i].read.state = "rejected")
           ~> (Len(loads) >= i /\ loads[i].future = "rejected")

\* a call threw after sending its request, and another call's promise was
\* rejected for its failed request while the engine was still loading
C28_Witness ==
    /\ thrown.called
    /\ thrown.error.kind = "UnknownDisplayProjection"
    /\ thrown.fetched = 1
    /\ Len(loads) = 1
    /\ sqlWasmPromises[1].state = "pending"
    /\ loads[1].read.state = "rejected"
    /\ loads[1].read.status = 404
    /\ loads[1].future = "rejected"
    /\ loads[1].error = DistRequestFailed(loads[1].gpkgFile)

====
